---- MODULE Spec2Model ----
(***************************************************************************)
(* A model of the HTML tree passes of internal/gen/gen.go:                 *)
(* removeInterElementWhitespace, processNewLines and                       *)
(* insertNodeBetweenWideAndNarrow, with the rune and string helpers and    *)
(* the html.Node operations they use.                                      *)
(*                                                                         *)
(* A Go string is modelled as the sequence of its runes (code points); the *)
(* tree is modelled as an arena: a sequence of node records indexed by     *)
(* node id, whose Parent / FirstChild / LastChild / PrevSibling /          *)
(* NextSibling fields are node ids (NIL for a nil pointer).                *)
(***************************************************************************)
EXTENDS Integers, Sequences, FiniteSets, TLC

VARIABLES heap, root, heap0, ops, tmpl, args, ret, tasks, run

vars == <<heap, root, heap0, ops, tmpl, args, ret, tasks, run>>

\* tasks and run where nothing of Run is going on
NoTasks == <<>>
NoRun == [pc |-> "none"]

(***************************************************************************)
(* Runes.  The code points the model draws its inputs from.               *)
(***************************************************************************)
NoRune == -1
TAB == 9
LF == 10
FF == 12
CR == 13
SP == 32
LPAREN == 40
LatinA == 97
NBSP == 160
IdeographicSpace == 12288
IdeographicComma == 12289
HiraganaA == 12354
HiraganaI == 12356
FullwidthA == 65313
HalfwidthKatakanaA == 65393
RuneError == 65533

\* asciiWhitespace = "\t\n\f\r "
asciiWhitespace == {TAB, LF, FF, CR, SP}

isASCIIWhitespace(r) == r \in asciiWhitespace

\* unicode.IsSpace on the runes of the model
IsSpace(r) == r \in {TAB, LF, FF, CR, SP, NBSP, IdeographicSpace}

\* unicode.IsPunct on the runes of the model (category P)
IsPunct(r) == r \in {LPAREN, IdeographicComma}

\* width.LookupRune(r).Kind() on the runes of the model
Kind(r) ==
  CASE r \in {IdeographicComma, HiraganaA, HiraganaI} -> "EastAsianWide"
    [] r \in {IdeographicSpace, FullwidthA} -> "EastAsianFullwidth"
    [] r = HalfwidthKatakanaA -> "EastAsianHalfwidth"
    [] r \in {NBSP} -> "Neutral"
    [] r = RuneError -> "EastAsianAmbiguous"
    [] r \in {TAB, LF, FF, CR} -> "Neutral"
    [] OTHER -> "EastAsianNarrow"

IsWideKind(k) == k = "EastAsianWide" \/ k = "EastAsianFullwidth"

(***************************************************************************)
(* Strings as rune sequences.                                              *)
(***************************************************************************)
\* utf8.DecodeRuneInString: the first rune, RuneError for the empty string
DecodeRuneInString(s) == IF Len(s) = 0 THEN RuneError ELSE s[1]

\* utf8.DecodeLastRuneInString: the last rune, RuneError for the empty string
DecodeLastRuneInString(s) == IF Len(s) = 0 THEN RuneError ELSE s[Len(s)]

RECURSIVE TrimLeft(_)
TrimLeft(s) ==
  IF Len(s) > 0 /\ isASCIIWhitespace(s[1]) THEN TrimLeft(Tail(s)) ELSE s

RECURSIVE TrimRight(_)
TrimRight(s) ==
  IF Len(s) > 0 /\ isASCIIWhitespace(s[Len(s)])
  THEN TrimRight(SubSeq(s, 1, Len(s) - 1))
  ELSE s

Trim(s) == TrimLeft(TrimRight(s))

ContainsNewLine(s) == \E i \in 1..Len(s) : s[i] = LF

hasASCIIWhitespaceHeadInverted(str) == TrimLeft(str) = str

hasASCIIWhitespaceHead(str) == TrimLeft(str) # str

\* the tail test with the comparison the other way round
hasASCIIWhitespaceTailInverted(str) == TrimRight(str) = str

hasASCIIWhitespaceTail(str) == TrimRight(str) # str

RECURSIVE hasASCIIWhitespaceWithNewLineHead(_)
hasASCIIWhitespaceWithNewLineHead(str) ==
  IF Len(str) = 0 THEN FALSE
  ELSE IF str[1] = LF THEN TRUE
  ELSE IF ~isASCIIWhitespace(str[1]) THEN FALSE
  ELSE hasASCIIWhitespaceWithNewLineHead(Tail(str))

RECURSIVE hasASCIIWhitespaceWithNewLineTail(_)
hasASCIIWhitespaceWithNewLineTail(str) ==
  LET r == DecodeLastRuneInString(str) IN
  IF r = LF THEN TRUE
  ELSE IF ~isASCIIWhitespace(r) THEN FALSE
  ELSE hasASCIIWhitespaceWithNewLineTail(SubSeq(str, 1, Len(str) - 1))

(***************************************************************************)
(* The spacing rules.                                                      *)
(***************************************************************************)
\* a rule that reserves the space unless both runes are wide
shouldReserveSpaceBetweenRunesUnlessBothWide(r0, r1) ==
  IF r0 = NoRune \/ r1 = NoRune THEN FALSE
  ELSE ~(IsWideKind(Kind(r0)) /\ IsWideKind(Kind(r1)))

shouldReserveSpaceBetweenRunes(r0, r1) ==
  IF r0 = NoRune \/ r1 = NoRune THEN FALSE
  ELSE LET w0 == IsWideKind(Kind(r0))
           w1 == IsWideKind(Kind(r1))
       IN ~w0 /\ ~w1

\* a rule between texts that decodes the boundary runes of the untrimmed texts
shouldReserveSpaceBetweenTextsUntrimmed(d0, d1) ==
  IF d0 = <<>> /\ d1 = <<>> THEN FALSE
  ELSE shouldReserveSpaceBetweenRunes(DecodeLastRuneInString(d0),
                                      DecodeRuneInString(d1))

shouldReserveSpaceBetweenTexts(d0, d1) ==
  IF d0 = <<>> /\ d1 = <<>> THEN FALSE
  ELSE LET e0 == IF hasASCIIWhitespaceWithNewLineTail(d0) THEN TrimRight(d0) ELSE d0
           e1 == IF hasASCIIWhitespaceWithNewLineHead(d1) THEN TrimLeft(d1) ELSE d1
       IN shouldReserveSpaceBetweenRunes(DecodeLastRuneInString(e0),
                                         DecodeRuneInString(e1))

\* a thin-space rule that looks at the first rune's width only
shouldHaveThinSpaceOneSided(r0, r1) ==
  IF r0 = NoRune \/ r1 = NoRune THEN FALSE
  ELSE IF IsSpace(r0) \/ IsSpace(r1) THEN FALSE
  ELSE LET w0 == IsWideKind(Kind(r0))
           w1 == IsWideKind(Kind(r1))
       IN IF w0 = w1 THEN FALSE ELSE w0 /\ ~IsPunct(r0)

\* the thin-space rule with punctuation of either width excluded
shouldHaveThinSpaceAnyPunct(r0, r1) ==
  IF r0 = NoRune \/ r1 = NoRune THEN FALSE
  ELSE IF IsSpace(r0) \/ IsSpace(r1) THEN FALSE
  ELSE IF IsPunct(r0) \/ IsPunct(r1) THEN FALSE
  ELSE IsWideKind(Kind(r0)) # IsWideKind(Kind(r1))

shouldHaveThinSpace(r0, r1) ==
  IF r0 = NoRune \/ r1 = NoRune THEN FALSE
  ELSE IF IsSpace(r0) \/ IsSpace(r1) THEN FALSE
  ELSE LET w0 == IsWideKind(Kind(r0))
           w1 == IsWideKind(Kind(r1))
       IN IF w0 = w1 THEN FALSE
          ELSE (w0 /\ ~IsPunct(r0)) # (w1 /\ ~IsPunct(r1))

(***************************************************************************)
(* SpecRunes: the rune rules applied to every pair of runes of the model.  *)
(***************************************************************************)
Runes == {NoRune, TAB, LF, SP, LPAREN, LatinA, NBSP, IdeographicSpace,
          IdeographicComma, HiraganaA, HiraganaI, FullwidthA,
          HalfwidthKatakanaA, RuneError}

NIL == 0

\* the last operation applied ("none" before the first)
op == IF Len(ops) = 0 THEN "none" ELSE ops[Len(ops)]

InitRunes ==
  /\ args \in Runes \X Runes
  /\ ret = "none"
  /\ tasks = NoTasks
  /\ run = NoRun
  /\ ops = <<>>
  /\ heap = <<>>
  /\ heap0 = <<>>
  /\ root = NIL
  /\ tmpl = "none"

CallShouldHaveThinSpace ==
  /\ ops = <<>>
  /\ ops' = <<"shouldHaveThinSpace">>
  /\ ret' = shouldHaveThinSpace(args[1], args[2])
  /\ UNCHANGED <<heap, root, heap0, tmpl, args, tasks, run>>

CallShouldReserveSpaceBetweenRunes ==
  /\ ops = <<>>
  /\ ops' = <<"shouldReserveSpaceBetweenRunes">>
  /\ ret' = shouldReserveSpaceBetweenRunes(args[1], args[2])
  /\ UNCHANGED <<heap, root, heap0, tmpl, args, tasks, run>>

NextRunes == CallShouldHaveThinSpace \/ CallShouldReserveSpaceBetweenRunes

SpecRunes == InitRunes /\ [][NextRunes]_vars

\* what the claims call a wide rune
WideRune(r) == Kind(r) \in {"EastAsianWide", "EastAsianFullwidth"}

\* C4 (as stated): shouldHaveThinSpace is false on a sentinel, on a space and
\* on a punctuation rune of either width, and otherwise true exactly when one
\* rune is wide and the other is not.
C4_AsStated ==
  op = "shouldHaveThinSpace" =>
    ret = IF args[1] = NoRune \/ args[2] = NoRune THEN FALSE
          ELSE IF IsSpace(args[1]) \/ IsSpace(args[2]) THEN FALSE
          ELSE IF IsPunct(args[1]) \/ IsPunct(args[2]) THEN FALSE
          ELSE WideRune(args[1]) # WideRune(args[2])

\* C4 (amended): shouldHaveThinSpace is false on a sentinel, false on a
\* space, false when both runes or neither rune is wide, and otherwise true
\* exactly when the wide rune of the pair is not a punctuation character; a
\* narrow punctuation rune does not make it false.
C4_Amended ==
  op = "shouldHaveThinSpace" =>
    ret = IF args[1] = NoRune \/ args[2] = NoRune THEN FALSE
          ELSE IF IsSpace(args[1]) \/ IsSpace(args[2]) THEN FALSE
          ELSE IF WideRune(args[1]) = WideRune(args[2]) THEN FALSE
          ELSE \A i \in 1..2 : WideRune(args[i]) => ~IsPunct(args[i])

\* a narrow punctuation rune next to a wide letter has been given to the rule
C4_Witness ==
  /\ op = "shouldHaveThinSpace"
  /\ args = <<LPAREN, HiraganaA>>
  /\ ret = TRUE

\* C5: shouldHaveThinSpace(r0, r1) = shouldHaveThinSpace(r1, r0) for the
\* pairs of non-sentinel, non-space, non-punctuation runes: the result of the
\* call on (r0, r1) is the result the rule gives on the swapped pair.
C5_Symmetric ==
  (/\ op = "shouldHaveThinSpace"
   /\ \A i \in 1..2 : args[i] # NoRune /\ ~IsSpace(args[i]) /\ ~IsPunct(args[i]))
    => ret = shouldHaveThinSpace(args[2], args[1])

\* a wide/narrow pair of letters has been given to shouldHaveThinSpace
C5_Witness ==
  /\ op = "shouldHaveThinSpace"
  /\ args = <<HiraganaA, LatinA>>
  /\ ret = TRUE

(***************************************************************************)
(* html.Node and the tree operations of golang.org/x/net/html that the     *)
(* passes call.  A node of type Element keeps its tag name in Tag and a    *)
(* node of type Text keeps its text in Data (in Go both are the field      *)
(* Data).                                                                  *)
(***************************************************************************)
ElementNode == "Element"
TextNode == "Text"
CommentNode == "Comment"

\* &html.Node{Type: t, Data: ...}: a node that is not linked to anything, in
\* no namespace and with the nil Attr slice
NewNode(type, tag, data) ==
  [Type |-> type, Tag |-> tag, Data |-> data, Parent |-> NIL,
   FirstChild |-> NIL, LastChild |-> NIL, PrevSibling |-> NIL,
   NextSibling |-> NIL, Namespace |-> "", Attr |-> NIL]

\* the backing array of an Attr slice is an object of the heap of its own;
\* the Attr field of a node is the id of the array its slice points to
AttributeArray == "AttributeArray"

\* make([]html.Attribute, len(attr)) filled with attr
NewAttributeArray(attr) == NewNode(AttributeArray, "", attr)

\* the attributes the Attr slice of node n holds
AttrOf(h, n) == IF h[n].Attr = NIL THEN <<>> ELSE h[h[n].Attr].Data

\* (*html.Node).InsertBefore: n.InsertBefore(newChild, oldChild)
InsertBefore(h, n, newChild, oldChild) ==
  LET prev == IF oldChild # NIL THEN h[oldChild].PrevSibling ELSE h[n].LastChild
      next == oldChild
      h1 == IF prev # NIL THEN [h EXCEPT ![prev].NextSibling = newChild]
                          ELSE [h EXCEPT ![n].FirstChild = newChild]
      h2 == IF next # NIL THEN [h1 EXCEPT ![next].PrevSibling = newChild]
                          ELSE [h1 EXCEPT ![n].LastChild = newChild]
  IN [h2 EXCEPT ![newChild].Parent = n,
                ![newChild].PrevSibling = prev,
                ![newChild].NextSibling = next]

\* (*html.Node).RemoveChild: n.RemoveChild(c), called with n = c.Parent
RemoveChild(h, n, c) ==
  LET h1 == IF h[n].FirstChild = c
            THEN [h EXCEPT ![n].FirstChild = h[c].NextSibling] ELSE h
      h2 == IF h1[c].NextSibling # NIL
            THEN [h1 EXCEPT ![h1[c].NextSibling].PrevSibling = h1[c].PrevSibling]
            ELSE h1
      h3 == IF h2[n].LastChild = c
            THEN [h2 EXCEPT ![n].LastChild = h2[c].PrevSibling] ELSE h2
      h4 == IF h3[c].PrevSibling # NIL
            THEN [h3 EXCEPT ![h3[c].PrevSibling].NextSibling = h3[c].NextSibling]
            ELSE h3
  IN [h4 EXCEPT ![c].Parent = NIL, ![c].PrevSibling = NIL, ![c].NextSibling = NIL]

isMetadataElementName(name) ==
  name \in {"base", "link", "meta", "noscript", "script", "style", "template", "title"}

isPhrasingElementName(name) ==
  name \in {"a", "abbr", "area", "audio", "b", "bdi", "bdo", "br", "button",
            "canvas", "cite", "code", "data", "datalist", "del", "dfn", "em",
            "embed", "i", "iframe", "img", "input", "ins", "kbd", "label",
            "link", "map", "mark", "math", "meta", "meter", "noscript",
            "object", "output", "picture", "progress", "q", "ruby", "s",
            "samp", "script", "select", "slot", "small", "span", "strong",
            "sub", "sup", "svg", "template", "textarea", "time", "u", "var",
            "video", "wbr"}

\* a guard that stops at the metadata elements only
isSkippedElementMetadataOnly(h, node) ==
  h[node].Type = ElementNode /\ isMetadataElementName(h[node].Tag)

\* the guard at the head of each pass: the node is a metadata element or pre
isSkippedElement(h, node) ==
  h[node].Type = ElementNode
    /\ (isMetadataElementName(h[node].Tag) \/ h[node].Tag = "pre")

(***************************************************************************)
(* The parsed tree.  html.Parse is modelled by what it builds: the nodes   *)
(* of a nested description are appended in document order, the root first. *)
(***************************************************************************)
TextOf(s) == [type |-> TextNode, tag |-> "", data |-> s, kids |-> <<>>]
ElementOf(tag, kids) == [type |-> ElementNode, tag |-> tag, data |-> <<>>, kids |-> kids]
CommentOf == [type |-> CommentNode, tag |-> "", data |-> <<>>, kids |-> <<>>]

\* (*html.Node).AppendChild of a fresh node
AppendChild(h, n, c) == InsertBefore(h, n, c, NIL)

RECURSIVE ParseInto(_, _, _)
ParseInto(h, parent, kids) ==
  IF Len(kids) = 0 THEN h
  ELSE LET k == kids[1]
           id == Len(h) + 1
           h1 == AppendChild(Append(h, NewNode(k.type, k.tag, k.data)), parent, id)
       IN ParseInto(ParseInto(h1, id, k.kids), parent, Tail(kids))

RootId == 1

\* the tree of <p>kids</p>
Parse(kids) == ParseInto(<<NewNode(ElementNode, "p", <<>>)>>, RootId, kids)

(***************************************************************************)
(* What html.Render sees of a tree: the nodes reachable through FirstChild *)
(* and NextSibling.                                                        *)
(***************************************************************************)
RECURSIVE SiblingsFrom(_, _)
SiblingsFrom(h, n) == IF n = NIL THEN <<>> ELSE <<n>> \o SiblingsFrom(h, h[n].NextSibling)

Children(h, n) == SiblingsFrom(h, h[n].FirstChild)

RECURSIVE TreeOf(_, _)
TreeOf(h, n) ==
  [id |-> n, type |-> h[n].Type, tag |-> h[n].Tag, data |-> h[n].Data,
   kids |-> [i \in 1..Len(Children(h, n)) |-> TreeOf(h, Children(h, n)[i])]]

RECURSIVE Linked(_, _)
\* the ids of the nodes of the tree below n, n included
Linked(h, n) ==
  LET cs == Children(h, n) IN
  {n} \cup UNION {Linked(h, cs[i]) : i \in 1..Len(cs)}

(***************************************************************************)
(* removeInterElementWhitespace                                            *)
(***************************************************************************)
RECURSIVE removeInterElementWhitespace(_, _)
RECURSIVE removeInterElementWhitespaceLoop(_, _)

\* a whitespace test without the "continue" of a text with visible characters
isWhitespaceTextAlways(h, n) == TRUE

\* strings.Trim(n.Data, asciiWhitespace) == "": the text is rewritten
isWhitespaceText(h, n) == Trim(h[n].Data) = <<>>

\* a reserve test that looks at the previous sibling only
reservesWhitespacePrevOnly(h, n) ==
  LET p == h[n].PrevSibling
      x == h[n].NextSibling
  IN \/ p = NIL /\ x = NIL
     \/ /\ p # NIL
        /\ h[p].Type = ElementNode
        /\ isPhrasingElementName(h[p].Tag)

\* the two "continue" tests after the rewrite: the only child of its parent,
\* or in between two phrasing elements
reservesWhitespace(h, n) ==
  LET p == h[n].PrevSibling
      x == h[n].NextSibling
  IN \/ p = NIL /\ x = NIL
     \/ /\ p # NIL
        /\ h[p].Type = ElementNode
        /\ isPhrasingElementName(h[p].Tag)
        /\ x # NIL
        /\ h[x].Type = ElementNode
        /\ isPhrasingElementName(h[x].Tag)

\* a loop that reads n.NextSibling after the body instead of before it
removeInterElementWhitespaceLoopLateNext(h, n) ==
  IF n = NIL THEN h
  ELSE LET h1 == IF h[n].Type # TextNode THEN removeInterElementWhitespace(h, n)
                 ELSE IF ~isWhitespaceText(h, n) THEN h
                 ELSE LET h2 == [h EXCEPT ![n].Data = <<SP>>]
                      IN IF reservesWhitespace(h2, n) THEN h2
                         ELSE RemoveChild(h2, h2[n].Parent, n)
       IN removeInterElementWhitespaceLoop(h1, h1[n].NextSibling)

\* the for loop of removeInterElementWhitespace, from child n on
removeInterElementWhitespaceLoop(h, n) ==
  IF n = NIL THEN h
  ELSE LET next == h[n].NextSibling IN
    IF h[n].Type # TextNode
    THEN removeInterElementWhitespaceLoop(removeInterElementWhitespace(h, n), next)
    ELSE IF ~isWhitespaceText(h, n)
    THEN removeInterElementWhitespaceLoop(h, next)
    ELSE LET h1 == [h EXCEPT ![n].Data = <<SP>>]
         IN IF reservesWhitespace(h1, n)
            THEN removeInterElementWhitespaceLoop(h1, next)
            ELSE removeInterElementWhitespaceLoop(RemoveChild(h1, h1[n].Parent, n), next)

removeInterElementWhitespace(h, node) ==
  IF isSkippedElement(h, node) THEN h
  ELSE removeInterElementWhitespaceLoop(h, h[node].FirstChild)

(***************************************************************************)
(* The search for the visible text before and after a node.                *)
(***************************************************************************)
RECURSIVE firstVisibleDescendant(_, _)
\* the loop of nextVisibleNode: "Search the first visible descendant"
firstVisibleDescendant(h, node) ==
  IF h[node].Type = ElementNode /\ ~isPhrasingElementName(h[node].Tag) THEN NIL
  ELSE IF h[node].FirstChild = NIL THEN node
  ELSE firstVisibleDescendant(h, h[node].FirstChild)

RECURSIVE lastVisibleDescendant(_, _)
\* the loop of prevVisibleNode: "Search the last visible descendant"
lastVisibleDescendant(h, node) ==
  IF h[node].Type = ElementNode /\ ~isPhrasingElementName(h[node].Tag) THEN NIL
  ELSE IF h[node].LastChild = NIL THEN node
  ELSE lastVisibleDescendant(h, h[node].LastChild)

\* a search that goes on from the next sibling of the nearest ancestor that
\* has one when the node has no next sibling
RECURSIVE nextVisibleNodeAscending(_, _)
nextVisibleNodeAscending(h, node) ==
  IF h[node].NextSibling # NIL THEN firstVisibleDescendant(h, h[node].NextSibling)
  ELSE IF h[node].Parent = NIL THEN NIL
  ELSE nextVisibleNodeAscending(h, h[node].Parent)

nextVisibleNode(h, node) ==
  IF h[node].NextSibling = NIL THEN NIL
  ELSE firstVisibleDescendant(h, h[node].NextSibling)

prevVisibleNode(h, node) ==
  IF h[node].PrevSibling = NIL THEN NIL
  ELSE lastVisibleDescendant(h, h[node].PrevSibling)

RECURSIVE nextVisibleTextNode(_, _)
nextVisibleTextNode(h, node) ==
  LET n == nextVisibleNode(h, node) IN
  IF n = NIL THEN NIL
  ELSE IF h[n].Type = TextNode /\ Len(h[n].Data) > 0 THEN n
  ELSE nextVisibleTextNode(h, n)

RECURSIVE prevVisibleTextNode(_, _)
prevVisibleTextNode(h, node) ==
  LET n == prevVisibleNode(h, node) IN
  IF n = NIL THEN NIL
  ELSE IF h[n].Type = TextNode /\ Len(h[n].Data) > 0 THEN n
  ELSE prevVisibleTextNode(h, n)

firstRuneAfter(h, node) ==
  LET n == nextVisibleTextNode(h, node) IN
  IF n = NIL THEN NoRune ELSE DecodeRuneInString(h[n].Data)

lastRuneBefore(h, node) ==
  LET n == prevVisibleTextNode(h, node) IN
  IF n = NIL THEN NoRune ELSE DecodeLastRuneInString(h[n].Data)

(***************************************************************************)
(* The loops the two later passes share: the dummy empty text nodes.       *)
(***************************************************************************)
RECURSIVE insertDummyTextNodes(_, _)
\* "Insert dummy empty text nodes between two elements", from child n on
insertDummyTextNodes(h, n) ==
  IF n = NIL THEN h
  ELSE LET next == h[n].NextSibling IN
    IF h[n].Type # ElementNode THEN insertDummyTextNodes(h, next)
    ELSE IF h[n].NextSibling = NIL THEN insertDummyTextNodes(h, next)
    ELSE IF h[h[n].NextSibling].Type # ElementNode THEN insertDummyTextNodes(h, next)
    ELSE LET id == Len(h) + 1
             h1 == Append(h, NewNode(TextNode, "", <<>>))
         IN insertDummyTextNodes(InsertBefore(h1, n, id, h1[n].NextSibling), next)

RECURSIVE removeDummyTextNodes(_, _)

\* a removal loop that reads n.NextSibling after RemoveChild has cleared it
removeDummyTextNodesLateNext(h, n) ==
  IF n = NIL THEN h
  ELSE IF h[n].Type # TextNode THEN removeDummyTextNodes(h, h[n].NextSibling)
  ELSE IF Len(h[n].Data) > 0 THEN removeDummyTextNodes(h, h[n].NextSibling)
  ELSE LET h1 == RemoveChild(h, h[n].Parent, n)
       IN removeDummyTextNodes(h1, h1[n].NextSibling)

\* "Remove dummy empty text nodes", from child n on
removeDummyTextNodes(h, n) ==
  IF n = NIL THEN h
  ELSE LET next == h[n].NextSibling IN
    IF h[n].Type # TextNode THEN removeDummyTextNodes(h, next)
    ELSE IF Len(h[n].Data) > 0 THEN removeDummyTextNodes(h, next)
    ELSE removeDummyTextNodes(RemoveChild(h, h[n].Parent, n), next)

(***************************************************************************)
(* processNewLines                                                         *)
(***************************************************************************)
\* rune i of s is in a match of reNewLineAndSpace, [\t\n\f\r ]*\n[\t\n\f\r ]*:
\* it is in a run of ASCII whitespace that holds a line feed
InNewLineAndSpace(s, i) ==
  /\ isASCIIWhitespace(s[i])
  /\ \E j \in 1..Len(s) :
       /\ s[j] = LF
       /\ \A k \in (IF i < j THEN i ELSE j)..(IF i < j THEN j ELSE i) :
             isASCIIWhitespace(s[k])

RECURSIVE SplitNewLineAndSpace(_)
\* reNewLineAndSpace.Split(s, -1)
SplitNewLineAndSpace(s) ==
  LET seps == {i \in 1..Len(s) : InNewLineAndSpace(s, i)} IN
  IF seps = {} THEN <<s>>
  ELSE LET a == CHOOSE i \in seps : \A j \in seps : i <= j
           b == CHOOSE i \in seps :
                  /\ \A k \in a..i : k \in seps
                  /\ (i + 1) \notin seps
       IN <<SubSeq(s, 1, a - 1)>> \o SplitNewLineAndSpace(SubSeq(s, b + 1, Len(s)))

\* a replacement that knows the space character only
RECURSIVE ReplaceAllSpaceOnlySP(_)
ReplaceAllSpaceOnlySP(s) ==
  IF Len(s) = 0 THEN s
  ELSE IF s[1] = SP /\ Len(s) > 1 /\ s[2] = SP THEN ReplaceAllSpaceOnlySP(Tail(s))
  ELSE <<s[1]>> \o ReplaceAllSpaceOnlySP(Tail(s))

RECURSIVE ReplaceAllSpace(_)
\* reSpace.ReplaceAllString(s, " "), reSpace being [\t\n\f\r ]+
ReplaceAllSpace(s) ==
  IF Len(s) = 0 THEN s
  ELSE IF isASCIIWhitespace(s[1]) THEN <<SP>> \o ReplaceAllSpace(TrimLeft(s))
  ELSE <<s[1]>> \o ReplaceAllSpace(Tail(s))

RECURSIVE joinSplitTexts(_, _)

\* a join that does not test len(data) > 0 before it decodes the last rune
joinSplitTextsAnyData(data, ts) ==
  IF Len(ts) = 0 THEN data
  ELSE LET t == ts[1]
           d1 == IF /\ t # <<>>
                    /\ shouldReserveSpaceBetweenRunes(DecodeLastRuneInString(data),
                                                      DecodeRuneInString(t))
                 THEN Append(data, SP) ELSE data
       IN joinSplitTexts(d1 \o t, Tail(ts))

\* the loop over reNewLineAndSpace.Split(n.Data, -1): data after the tokens ts
joinSplitTexts(data, ts) ==
  IF Len(ts) = 0 THEN data
  ELSE LET t == ts[1]
           d1 == IF /\ Len(data) > 0
                    /\ t # <<>>
                    /\ shouldReserveSpaceBetweenRunes(DecodeLastRuneInString(data),
                                                      DecodeRuneInString(t))
                 THEN Append(data, SP) ELSE data
       IN joinSplitTexts(d1 \o t, Tail(ts))

\* the new Data of the child text node n: the body of the loop "Process child
\* text nodes first" up to reSpace.ReplaceAllString
newLinesData(h, n) ==
  LET prev == prevVisibleTextNode(h, n)
      next == nextVisibleTextNode(h, n)
      d == h[n].Data
  IN ReplaceAllSpace(
       IF Len(d) > 0 /\ (Trim(d) # <<>> \/ ~ContainsNewLine(d))
       THEN LET head == IF /\ prev # NIL
                           /\ (hasASCIIWhitespaceTail(h[prev].Data) \/ hasASCIIWhitespaceHead(d))
                           /\ shouldReserveSpaceBetweenTexts(h[prev].Data, d)
                        THEN <<SP>> ELSE <<>>
                body == joinSplitTexts(head, SplitNewLineAndSpace(d))
            IN IF /\ next # NIL
                  /\ (hasASCIIWhitespaceTail(d) \/ hasASCIIWhitespaceHead(h[next].Data))
                  /\ shouldReserveSpaceBetweenTexts(d, h[next].Data)
               THEN Append(body, SP) ELSE body
       ELSE IF /\ prev # NIL
               /\ next # NIL
               /\ \/ hasASCIIWhitespaceTail(h[prev].Data)
                  \/ hasASCIIWhitespaceHead(h[next].Data)
                  \/ Len(d) > 0
               /\ shouldReserveSpaceBetweenTexts(h[prev].Data, h[next].Data)
       THEN <<SP>>
       ELSE <<>>)

RECURSIVE processNewLines(_, _)
RECURSIVE processNewLinesTexts(_, _)
RECURSIVE processNewLinesElements(_, _)

\* "Process child text nodes first", from child n on
processNewLinesTexts(h, n) ==
  IF n = NIL THEN h
  ELSE IF h[n].Type # TextNode THEN processNewLinesTexts(h, h[n].NextSibling)
  ELSE LET h1 == [h EXCEPT ![n].Data = newLinesData(h, n)]
       IN processNewLinesTexts(h1, h1[n].NextSibling)

\* "Process child element nodes next", from child n on
processNewLinesElements(h, n) ==
  IF n = NIL THEN h
  ELSE IF h[n].Type = TextNode THEN processNewLinesElements(h, h[n].NextSibling)
  ELSE LET h1 == processNewLines(h, n)
       IN processNewLinesElements(h1, h1[n].NextSibling)

processNewLines(h, node) ==
  IF isSkippedElement(h, node) THEN h
  ELSE LET h1 == insertDummyTextNodes(h, h[node].FirstChild)
           h2 == processNewLinesTexts(h1, h1[node].FirstChild)
           h3 == processNewLinesElements(h2, h2[node].FirstChild)
       IN removeDummyTextNodes(h3, h3[node].FirstChild)

(***************************************************************************)
(* insertNodeBetweenWideAndNarrow                                          *)
(***************************************************************************)
RECURSIVE thinSpaceTokens(_, _, _)

\* a tokenizer that does not move lastI to the cut
thinSpaceTokensNoAdvance(d, lastI, i) ==
  IF i > Len(d) THEN <<SubSeq(d, lastI, Len(d))>>
  ELSE IF i > 1 /\ shouldHaveThinSpace(d[i - 1], d[i])
  THEN <<SubSeq(d, lastI, i - 1)>> \o thinSpaceTokens(d, lastI, i + 1)
  ELSE thinSpaceTokens(d, lastI, i + 1)

\* the tokens of d: the loop over the runes of n.Data and the final append
thinSpaceTokens(d, lastI, i) ==
  IF i > Len(d) THEN <<SubSeq(d, lastI, Len(d))>>
  ELSE IF i > 1 /\ shouldHaveThinSpace(d[i - 1], d[i])
  THEN <<SubSeq(d, lastI, i - 1)>> \o thinSpaceTokens(d, i, i + 1)
  ELSE thinSpaceTokens(d, lastI, i + 1)

\* an insertSpan whose node takes the Attr slice of insertingNode as it is
insertSpanSharedAttr(h, parent, next, insertingNode) ==
  LET id == Len(h) + 1
      node == [NewNode(h[insertingNode].Type, h[insertingNode].Tag,
                       h[insertingNode].Data)
                 EXCEPT !.Namespace = h[insertingNode].Namespace,
                        !.Attr = h[insertingNode].Attr]
  IN InsertBefore(Append(h, node), parent, id, next)

\* insertSpan: a copy of insertingNode, with a copy of its attributes in an
\* array of its own, is inserted in parent before next
insertSpan(h, parent, next, insertingNode) ==
  LET id == Len(h) + 1
      node == [NewNode(h[insertingNode].Type, h[insertingNode].Tag,
                       h[insertingNode].Data)
                 EXCEPT !.Namespace = h[insertingNode].Namespace,
                        !.Attr = id + 1]
      h1 == Append(Append(h, node), NewAttributeArray(AttrOf(h, insertingNode)))
  IN InsertBefore(h1, parent, id, next)

RECURSIVE insertTokens(_, _, _, _, _, _)
\* the loop "for i, t := range tokens", from token i on
insertTokens(h, parent, next, insertingNode, tokens, i) ==
  IF i > Len(tokens) THEN h
  ELSE LET id == Len(h) + 1
           h1 == InsertBefore(Append(h, NewNode(TextNode, "", tokens[i])),
                              parent, id, next)
       IN IF i = Len(tokens)
          THEN insertTokens(h1, parent, next, insertingNode, tokens, i + 1)
          ELSE insertTokens(insertSpan(h1, parent, next, insertingNode),
                            parent, next, insertingNode, tokens, i + 1)

\* the body of the loop "Process child text nodes first" for the text node n
insertAroundText(h, n, next, insertingNode) ==
  LET tokens == thinSpaceTokens(h[n].Data, 1, 1)
      prevR == lastRuneBefore(h, n)
      nextR == firstRuneAfter(h, n)
      parent == h[n].Parent
      h1 == RemoveChild(h, parent, n)
  IN IF Len(tokens) > 0
     THEN LET h2 == IF shouldHaveThinSpace(prevR, DecodeRuneInString(tokens[1]))
                    THEN insertSpan(h1, parent, next, insertingNode) ELSE h1
              h3 == insertTokens(h2, parent, next, insertingNode, tokens, 1)
          IN IF shouldHaveThinSpace(DecodeLastRuneInString(tokens[Len(tokens)]), nextR)
             THEN insertSpan(h3, parent, next, insertingNode) ELSE h3
     ELSE IF shouldHaveThinSpace(prevR, nextR)
          THEN insertSpan(h1, parent, next, insertingNode) ELSE h1

RECURSIVE insertNodeBetweenWideAndNarrow(_, _, _)
RECURSIVE insertNodeTexts(_, _, _)
RECURSIVE insertNodeElements(_, _, _)

\* "Process child text nodes first", from child n on
insertNodeTexts(h, n, insertingNode) ==
  IF n = NIL THEN h
  ELSE LET next == h[n].NextSibling IN
    IF h[n].Type # TextNode THEN insertNodeTexts(h, next, insertingNode)
    ELSE insertNodeTexts(insertAroundText(h, n, next, insertingNode), next, insertingNode)

\* "Process child element nodes next", from child n on
insertNodeElements(h, n, insertingNode) ==
  IF n = NIL THEN h
  ELSE IF h[n].Type = TextNode
  THEN insertNodeElements(h, h[n].NextSibling, insertingNode)
  ELSE LET h1 == insertNodeBetweenWideAndNarrow(h, n, insertingNode)
       IN insertNodeElements(h1, h1[n].NextSibling, insertingNode)

insertNodeBetweenWideAndNarrow(h, node, insertingNode) ==
  IF isSkippedElement(h, node) THEN h
  ELSE LET h1 == insertDummyTextNodes(h, h[node].FirstChild)
           h2 == insertNodeTexts(h1, h1[node].FirstChild, insertingNode)
           h3 == insertNodeElements(h2, h2[node].FirstChild, insertingNode)
       IN removeDummyTextNodes(h3, h3[node].FirstChild)

(***************************************************************************)
(* The trees the passes are given: <p>kids</p> with up to MaxKids children *)
(* drawn from a set of items, no two Text nodes adjacent and no Text node  *)
(* empty, as html.Parse builds them.                                       *)
(***************************************************************************)
MaxKids == 3
MaxSteps == 2

NoAdjacentTexts(kids) ==
  \A i \in 1..(Len(kids) - 1) :
     ~(kids[i].type = TextNode /\ kids[i + 1].type = TextNode)

KidLists(items) ==
  {kids \in UNION {[1..k -> items] : k \in 0..MaxKids} : NoAdjacentTexts(kids)}

InitTree(items) ==
  /\ heap \in {Parse(kids) : kids \in KidLists(items)}
  /\ heap0 = heap
  /\ root = RootId
  /\ ops = <<>>
  /\ tmpl = "none"
  /\ args = <<>>
  /\ ret = "none"
  /\ tasks = NoTasks
  /\ run = NoRun

(***************************************************************************)
(* SpecWS: removeInterElementWhitespace applied, and applied again, to     *)
(* trees with whitespace between elements of every kind.                   *)
(***************************************************************************)
ItemsWS ==
  {TextOf(<<SP>>), TextOf(<<SP, LF>>), TextOf(<<LatinA>>),
   TextOf(<<SP, LatinA, SP>>), TextOf(<<NBSP>>),
   CommentOf,
   ElementOf("br", <<>>),
   ElementOf("b", <<TextOf(<<SP, SP>>)>>),
   ElementOf("b", <<TextOf(<<LatinA>>)>>),
   ElementOf("b", <<ElementOf("i", <<>>), TextOf(<<LF>>), ElementOf("i", <<>>)>>),
   ElementOf("li", <<TextOf(<<LF>>), ElementOf("b", <<>>), TextOf(<<TAB>>)>>),
   ElementOf("li", <<TextOf(<<SP, LatinA>>)>>),
   ElementOf("pre", <<TextOf(<<SP, SP>>), ElementOf("b", <<>>)>>),
   ElementOf("script", <<TextOf(<<SP, LF>>)>>)}

InitWS == InitTree(ItemsWS)

RemoveInterElementWhitespace ==
  /\ Len(ops) < MaxSteps
  /\ heap0' = heap
  /\ heap' = removeInterElementWhitespace(heap, root)
  /\ ops' = Append(ops, "removeInterElementWhitespace")
  /\ UNCHANGED <<root, tmpl, args, ret, tasks, run>>

NextWS == RemoveInterElementWhitespace

SpecWS == InitWS /\ [][NextWS]_vars

(***************************************************************************)
(* SpecNL: processNewLines applied to trees with whitespace, with and      *)
(* without line feeds, at the edges of texts and of phrasing elements.     *)
(***************************************************************************)
ItemsNL ==
  {TextOf(<<LatinA>>), TextOf(<<HiraganaA>>),
   TextOf(<<LatinA, SP>>), TextOf(<<SP, LatinA>>),
   TextOf(<<LatinA, SP, LF>>), TextOf(<<LF, LatinA>>),
   TextOf(<<HiraganaA, SP>>), TextOf(<<LF, SP, HiraganaA>>),
   TextOf(<<SP>>), TextOf(<<SP, LF>>),
   ElementOf("br", <<>>),
   ElementOf("b", <<TextOf(<<LatinA>>)>>),
   ElementOf("b", <<TextOf(<<HiraganaA>>)>>),
   ElementOf("b", <<TextOf(<<SP, LatinA, SP>>)>>),
   ElementOf("b", <<TextOf(<<SP, LF, LatinA, LF, SP>>)>>),
   ElementOf("b", <<TextOf(<<LF, HiraganaA, LF>>)>>),
   ElementOf("b", <<ElementOf("i", <<TextOf(<<SP, HiraganaA, SP>>)>>)>>),
   ElementOf("li", <<TextOf(<<SP, LatinA, LF>>)>>)}

InitNL == InitTree(ItemsNL)

ProcessNewLines ==
  /\ ops = <<>>
  /\ heap0' = heap
  /\ heap' = processNewLines(heap, root)
  /\ ops' = Append(ops, "processNewLines")
  /\ UNCHANGED <<root, tmpl, args, ret, tasks, run>>

NextNL == ProcessNewLines

SpecNL == InitNL /\ [][NextNL]_vars

(***************************************************************************)
(* SpecThin: insertNodeBetweenWideAndNarrow applied, with a non-phrasing   *)
(* and with a phrasing marker template, to trees of wide and narrow text.  *)
(***************************************************************************)
ItemsThin ==
  {TextOf(<<LatinA>>), TextOf(<<HiraganaA>>),
   TextOf(<<LatinA, HiraganaA>>), TextOf(<<HiraganaA, LatinA, HiraganaI>>),
   TextOf(<<LatinA, SP>>), TextOf(<<IdeographicComma>>),
   TextOf(<<LatinA, LPAREN, LatinA>>),
   ElementOf("br", <<>>),
   ElementOf("b", <<TextOf(<<LatinA>>)>>),
   ElementOf("b", <<TextOf(<<HiraganaA>>)>>),
   ElementOf("b", <<ElementOf("i", <<TextOf(<<LatinA>>)>>)>>),
   ElementOf("b", <<TextOf(<<HiraganaA>>), ElementOf("i", <<TextOf(<<LatinA>>)>>)>>),
   ElementOf("li", <<TextOf(<<LatinA, HiraganaA>>)>>),
   ElementOf("li", <<TextOf(<<HiraganaA>>)>>),
   ElementOf("pre", <<TextOf(<<LatinA, HiraganaA>>)>>)}

\* the marker templates: the one of the tests, the one of generateHTML, and
\* one in a namespace
Templates ==
  {[tag |-> "dummy-space", ns |-> "", attr |-> <<>>],
   [tag |-> "span", ns |-> "", attr |-> <<[Key |-> "class", Val |-> "thin-space"]>>],
   [tag |-> "mspace", ns |-> "math",
    attr |-> <<[Key |-> "class", Val |-> "thin-space"], [Key |-> "width", Val |-> "thin"]>>]}

\* the heap h after the caller has allocated the template t: the node, and
\* the array of its attributes if it has any
WithTemplate(h, t) ==
  LET id == Len(h) + 1
      node == [NewNode(ElementNode, t.tag, <<>>)
                 EXCEPT !.Namespace = t.ns,
                        !.Attr = IF t.attr = <<>> THEN NIL ELSE id + 1]
  IN IF t.attr = <<>> THEN Append(h, node)
     ELSE Append(Append(h, node), NewAttributeArray(t.attr))

InitThin == InitTree(ItemsThin)

\* the id of the template node, allocated by the caller after the tree
TemplateId == Len(heap0) + 1

InsertNodeBetweenWideAndNarrow ==
  /\ ops = <<>>
  /\ \E t \in Templates :
       /\ tmpl' = t
       /\ heap' = insertNodeBetweenWideAndNarrow(WithTemplate(heap, t), root, Len(heap) + 1)
  /\ heap0' = heap
  /\ ops' = Append(ops, "insertNodeBetweenWideAndNarrow")
  /\ UNCHANGED <<root, args, ret, tasks, run>>

NextThin == InsertNodeBetweenWideAndNarrow

SpecThin == InitThin /\ [][NextThin]_vars

(***************************************************************************)
(* What the claims about the passes speak of.                              *)
(***************************************************************************)
RECURSIVE Outside(_, _)
\* the nodes below n that are in no metadata or pre subtree, n included
Outside(h, n) ==
  IF h[n].Type = ElementNode /\ (isMetadataElementName(h[n].Tag) \/ h[n].Tag = "pre")
  THEN {}
  ELSE LET cs == Children(h, n) IN
       {n} \cup UNION {Outside(h, cs[i]) : i \in 1..Len(cs)}

\* the Text nodes of the tree that are children of a node outside
\* metadata/pre subtrees
OutsideTexts(h) == {n \in Outside(h, root) : h[n].Type = TextNode}

WhitespaceOnly(s) == \A i \in 1..Len(s) : s[i] \in {TAB, LF, FF, CR, SP}

PhrasingElement(h, n) ==
  n # NIL /\ h[n].Type = ElementNode /\ isPhrasingElementName(h[n].Tag)

\* the nodes the first of two removeInterElementWhitespace runs unlinked
Unlinked(h) == (1..Len(h)) \ Linked(h, root)

\* C6: removeInterElementWhitespace is idempotent: the tree after the second
\* of two applications in succession (same nodes, order and payloads) is the
\* tree after the first.
C6_Idempotent ==
  ops = <<"removeInterElementWhitespace", "removeInterElementWhitespace">>
    => TreeOf(heap, root) = TreeOf(heap0, root)

\* the pass ran twice on a tree from which the first run removed two
\* whitespace nodes and in which it kept one
C6_Witness ==
  /\ ops = <<"removeInterElementWhitespace", "removeInterElementWhitespace">>
  /\ Cardinality(Unlinked(heap0)) >= 2
  /\ \E n \in Linked(heap, root) :
        heap[n].Type = TextNode /\ heap[n].Data = <<SP>>

\* C7: after the pass every whitespace-only Text node outside metadata/pre
\* subtrees is deleted or holds exactly one space, and it is kept exactly
\* when it was the only child of its parent or its previous and next
\* siblings were both phrasing elements.
C7_KeptIffReserved ==
  op = "removeInterElementWhitespace" =>
    \A n \in OutsideTexts(heap0) :
       WhitespaceOnly(heap0[n].Data) =>
         LET kept == n \in Linked(heap, root)
             p == heap0[n].PrevSibling
             x == heap0[n].NextSibling
         IN /\ kept => heap[n].Data = <<SP>>
            /\ kept <=> \/ p = NIL /\ x = NIL
                        \/ PhrasingElement(heap0, p) /\ PhrasingElement(heap0, x)

\* the first run kept a whitespace node between two phrasing elements as one
\* space and deleted a whitespace node at the start of its parent
C7_Witness ==
  /\ ops = <<"removeInterElementWhitespace">>
  /\ \E n \in OutsideTexts(heap0) :
       /\ WhitespaceOnly(heap0[n].Data)
       /\ heap0[n].Data # <<SP>>
       /\ n \in Linked(heap, root)
       /\ heap[n].Data = <<SP>>
       /\ PhrasingElement(heap0, heap0[n].PrevSibling)
  /\ \E n \in OutsideTexts(heap0) :
       /\ WhitespaceOnly(heap0[n].Data)
       /\ heap0[n].PrevSibling = NIL
       /\ n \notin Linked(heap, root)

\* C8: the pass never changes, removes or reorders a Text node that has a
\* character other than ASCII whitespace, nor any non-Text node: every child
\* list after the pass is the child list before it without the deleted
\* whitespace-only Text nodes, and every other node keeps its payload.
C8_Frame ==
  op = "removeInterElementWhitespace" =>
    /\ \A n \in Linked(heap0, root) :
         (heap0[n].Type # TextNode \/ ~WhitespaceOnly(heap0[n].Data)) =>
            /\ n \in Linked(heap, root)
            /\ heap[n].Type = heap0[n].Type
            /\ heap[n].Tag = heap0[n].Tag
            /\ heap[n].Data = heap0[n].Data
    /\ \A n \in Linked(heap, root) :
         LET before == Children(heap0, n)
             IsKept(c) == c \in Linked(heap, root)
         IN Children(heap, n) = SelectSeq(before, IsKept)

\* the pass ran on a tree with the text " a " beside an element, and deleted
\* a whitespace node of the same tree
C8_Witness ==
  /\ ops = <<"removeInterElementWhitespace">>
  /\ \E n \in Linked(heap, root) :
       /\ heap[n].Type = TextNode
       /\ heap[n].Data = <<SP, LatinA, SP>>
       /\ heap[n].NextSibling # NIL
  /\ Linked(heap, root) # Linked(heap0, root)

(***************************************************************************)
(* The visible text of a block, for the claims about                       *)
(* insertNodeBetweenWideAndNarrow: the runes of the Text nodes in document *)
(* order, phrasing elements being transparent and any other element a      *)
(* barrier; an inserted marker is a token of its own.                      *)
(***************************************************************************)
\* the markers the pass inserted: the elements allocated after the template
Marks == {n \in (TemplateId + 1)..Len(heap) : heap[n].Type = ElementNode}

RuneTokens(c, d) == [i \in 1..Len(d) |-> [k |-> "rune", r |-> d[i], at |-> c]]

RECURSIVE Flat(_, _, _, _)
\* the tokens of the children cs of p: "at" is the Text node of a rune and the
\* node that has a marker in its child list
Flat(h, p, cs, marks) ==
  IF Len(cs) = 0 THEN <<>>
  ELSE LET c == cs[1]
           here == IF c \in marks THEN <<[k |-> "mark", r |-> NoRune, at |-> p]>>
                   ELSE IF h[c].Type = TextNode THEN RuneTokens(c, h[c].Data)
                   ELSE IF h[c].Type = ElementNode /\ ~isPhrasingElementName(h[c].Tag)
                   THEN <<[k |-> "barrier", r |-> NoRune, at |-> c]>>
                   ELSE Flat(h, c, Children(h, c), marks)
       IN here \o Flat(h, p, Tail(cs), marks)

FlatOf(h, p, marks) == Flat(h, p, Children(h, p), marks)

\* the blocks whose text the pass works on: the root and the non-phrasing
\* elements outside metadata/pre subtrees
Blocks(h) ==
  {n \in Outside(h, root) :
     n = root \/ (h[n].Type = ElementNode /\ ~isPhrasingElementName(h[n].Tag))}

RECURSIVE Ancestors(_, _)
Ancestors(h, n) ==
  IF h[n].Parent = NIL THEN {} ELSE {h[n].Parent} \cup Ancestors(h, h[n].Parent)

\* the node whose children hold a and b in different subtrees
CommonParent(h, a, b) ==
  CHOOSE c \in Ancestors(h, a) \cap Ancestors(h, b) :
    \A d \in Ancestors(h, a) \cap Ancestors(h, b) : d = c \/ d \in Ancestors(h, c)

\* the positions in f of the tokens that are not markers, in order
RECURSIVE NonMarkPositions(_, _)
NonMarkPositions(f, i) ==
  IF i > Len(f) THEN <<>>
  ELSE IF f[i].k = "mark" THEN NonMarkPositions(f, i + 1)
  ELSE <<i>> \o NonMarkPositions(f, i + 1)

\* the rune of the nearest token that is not a marker, going from position i
\* in direction dir; the sentinel at a barrier and at the end of the block
RECURSIVE NearestRune(_, _, _)
NearestRune(f, i, dir) ==
  IF i < 1 \/ i > Len(f) THEN NoRune
  ELSE IF f[i].k = "mark" THEN NearestRune(f, i + dir, dir)
  ELSE f[i].r

\* C1 (as stated): for every boundary between the text of two different nodes
\* of a block, when shouldHaveThinSpace holds for the rune before and the
\* rune after it, the pass inserts exactly one marker there, in the child
\* list of the node that holds both sides, whatever the marker template.
C1_ExactlyOneMarker ==
  op = "insertNodeBetweenWideAndNarrow" =>
    \A p \in Blocks(heap0) :
      LET f0 == FlatOf(heap0, p, {})
          f1 == FlatOf(heap, p, Marks)
          at == NonMarkPositions(f1, 1)
      IN \A i \in 1..(Len(f0) - 1) :
           (/\ f0[i].k = "rune"
            /\ f0[i + 1].k = "rune"
            /\ f0[i].at # f0[i + 1].at
            /\ shouldHaveThinSpace(f0[i].r, f0[i + 1].r))
             => /\ Len(at) = Len(f0)
                /\ at[i + 1] = at[i] + 2
                /\ f1[at[i] + 1].at = CommonParent(heap0, f0[i].at, f0[i + 1].at)

\* C2 (as stated): every marker the pass inserts stands between a nearest
\* visible rune before it and a nearest visible rune after it for which
\* shouldHaveThinSpace holds.
C2_OnlyAtThinSpace ==
  op = "insertNodeBetweenWideAndNarrow" =>
    \A p \in Blocks(heap0) :
      LET f1 == FlatOf(heap, p, Marks)
      IN \A i \in 1..Len(f1) :
           f1[i].k = "mark" =>
             shouldHaveThinSpace(NearestRune(f1, i - 1, -1), NearestRune(f1, i + 1, 1))

\* the cut points of the content c of a Text node
Cuts(c) == {i \in 2..Len(c) : shouldHaveThinSpace(c[i - 1], c[i])}

\* the j-th cut point of c, Len(c) + 1 after the last one and 1 before the first
CutAt(c, j) ==
  IF j = 0 THEN 1
  ELSE IF j > Cardinality(Cuts(c)) THEN Len(c) + 1
  ELSE CHOOSE i \in Cuts(c) : Cardinality({x \in Cuts(c) : x < i}) = j - 1

\* c cut at its cut points
Pieces(c) ==
  [j \in 1..(Cardinality(Cuts(c)) + 1) |-> SubSeq(c, CutAt(c, j - 1), CutAt(c, j) - 1)]

\* the position of node n in the sequence cs, 0 if it is not in it
PositionIn(cs, n) ==
  IF \E i \in 1..Len(cs) : cs[i] = n THEN CHOOSE i \in 1..Len(cs) : cs[i] = n ELSE 0

\* the children the parent of the Text node n has after the pass between the
\* two siblings n had before it
Replacement(n) ==
  LET cs == Children(heap, heap0[n].Parent)
      a == IF heap0[n].PrevSibling = NIL THEN 0 ELSE PositionIn(cs, heap0[n].PrevSibling)
      b == IF heap0[n].NextSibling = NIL THEN Len(cs) + 1
           ELSE PositionIn(cs, heap0[n].NextSibling)
  IN SubSeq(cs, a + 1, b - 1)

\* the positions of the Text nodes in the sequence of nodes cs
RECURSIVE TextPositions(_, _)
TextPositions(cs, i) ==
  IF i > Len(cs) THEN <<>>
  ELSE IF heap[cs[i]].Type = TextNode THEN <<i>> \o TextPositions(cs, i + 1)
  ELSE TextPositions(cs, i + 1)

\* C3: a Text node with content c outside metadata/pre is replaced, between
\* the siblings it had, by the Text nodes t1..tk that are c cut at exactly the
\* positions i > 0 where shouldHaveThinSpace(rune before i, rune at i), so
\* t1 + ... + tk = c and no ti is empty, with exactly one marker between each
\* consecutive pair.
C3_TokensOfText ==
  op = "insertNodeBetweenWideAndNarrow" =>
    \A n \in OutsideTexts(heap0) :
      LET seg == Replacement(n)
          ts == TextPositions(seg, 1)
      IN /\ [j \in 1..Len(ts) |-> heap[seg[ts[j]]].Data] = Pieces(heap0[n].Data)
         /\ \A j \in 1..Len(ts) : heap[seg[ts[j]]].Data # <<>>
         /\ \A j \in 1..(Len(ts) - 1) :
              ts[j + 1] = ts[j] + 2 /\ seg[ts[j] + 1] \in Marks

\* the pass cut the text of a Text node that has siblings on both sides into
\* three
C3_Witness ==
  /\ op = "insertNodeBetweenWideAndNarrow"
  /\ \E n \in OutsideTexts(heap0) :
       /\ heap0[n].Data = <<HiraganaA, LatinA, HiraganaI>>
       /\ heap0[n].PrevSibling # NIL
       /\ heap0[n].NextSibling # NIL
       /\ Len(TextPositions(Replacement(n), 1)) = 3

(***************************************************************************)
(* The edges of a text, for the claims about processNewLines.              *)
(***************************************************************************)
\* the run of ASCII whitespace d starts with, and the one it ends with
LeadRun(d) == SubSeq(d, 1, Len(d) - Len(TrimLeft(d)))
TrailRun(d) == SubSeq(d, Len(TrimRight(d)) + 1, Len(d))

HasLineFeed(r) == \E i \in 1..Len(r) : r[i] = LF

NoSpaceAtStart(out) == out = <<>> \/ ~isASCIIWhitespace(out[1])
NoSpaceAtEnd(out) == out = <<>> \/ ~isASCIIWhitespace(out[Len(out)])

OneSpaceAtStart(out) ==
  /\ Len(out) >= 1
  /\ out[1] = SP
  /\ Len(out) >= 2 => ~isASCIIWhitespace(out[2])

OneSpaceAtEnd(out) ==
  /\ Len(out) >= 1
  /\ out[Len(out)] = SP
  /\ Len(out) >= 2 => ~isASCIIWhitespace(out[Len(out) - 1])

\* C9: a Text node without a previous visible text neighbour loses a leading
\* whitespace run that holds a line feed entirely, one without a next visible
\* text neighbour loses such a trailing run entirely, and a leading or
\* trailing run without a line feed is kept as one space.
C9_EdgeRuns ==
  op = "processNewLines" =>
    \A n \in OutsideTexts(heap0) :
      LET d == heap0[n].Data
          out == heap[n].Data
      IN /\ prevVisibleTextNode(heap0, n) = NIL =>
              /\ HasLineFeed(LeadRun(d)) =>
                   /\ NoSpaceAtStart(out)
                   /\ TrimLeft(d) # <<>> => out # <<>> /\ out[1] = TrimLeft(d)[1]
              /\ (LeadRun(d) # <<>> /\ ~HasLineFeed(LeadRun(d))) => OneSpaceAtStart(out)
         /\ nextVisibleTextNode(heap0, n) = NIL =>
              /\ HasLineFeed(TrailRun(d)) =>
                   /\ NoSpaceAtEnd(out)
                   /\ TrimRight(d) # <<>> =>
                        out # <<>> /\ out[Len(out)] = TrimRight(d)[Len(TrimRight(d))]
              /\ (TrailRun(d) # <<>> /\ ~HasLineFeed(TrailRun(d))) => OneSpaceAtEnd(out)

\* the pass took the line feed runs off both ends of a text that has no
\* visible text neighbour, and kept the space at the end of another one
C9_Witness ==
  /\ op = "processNewLines"
  /\ \E n \in OutsideTexts(heap0) :
       /\ heap0[n].Data = <<SP, LF, LatinA, LF, SP>>
       /\ heap[n].Data = <<LatinA>>
  /\ \E n \in OutsideTexts(heap0) :
       /\ heap0[n].Data = <<LatinA, SP>>
       /\ nextVisibleTextNode(heap0, n) = NIL
       /\ heap[n].Data = <<LatinA, SP>>

\* d without a trailing, and without a leading, whitespace run that holds a
\* line feed
WithoutLineFeedTail(d) == IF HasLineFeed(TrailRun(d)) THEN TrimRight(d) ELSE d
WithoutLineFeedHead(d) == IF HasLineFeed(LeadRun(d)) THEN TrimLeft(d) ELSE d

\* the boundary between a text d0 and the text d1 after it has whitespace on
\* a side and a boundary character on both sides
SpacedBoundary(d0, d1) ==
  /\ TrailRun(d0) # <<>> \/ LeadRun(d1) # <<>>
  /\ WithoutLineFeedTail(d0) # <<>>
  /\ WithoutLineFeedHead(d1) # <<>>

\* both boundary characters of the boundary between d0 and d1 are non-wide
BothNonWide(d0, d1) ==
  LET e0 == WithoutLineFeedTail(d0)
      e1 == WithoutLineFeedHead(d1)
  IN ~WideRune(e0[Len(e0)]) /\ ~WideRune(e1[1])

\* the visible text neighbour of n inside the phrasing element next to it
NextInside(h, n) ==
  LET e == h[n].NextSibling
      m == nextVisibleTextNode(h, n)
  IN IF PhrasingElement(h, e) /\ m # NIL /\ m \in Linked(h, e) THEN m ELSE NIL

PrevInside(h, n) ==
  LET e == h[n].PrevSibling
      m == prevVisibleTextNode(h, n)
  IN IF PhrasingElement(h, e) /\ m # NIL /\ m \in Linked(h, e) THEN m ELSE NIL

\* the pairs of adjacent sibling elements outside metadata/pre subtrees that
\* both hold the visible text next to the slot between them
Slots(h) ==
  {s \in Outside(h, root) \X Outside(h, root) :
     /\ h[s[1]].NextSibling = s[2]
     /\ PhrasingElement(h, s[1])
     /\ PhrasingElement(h, s[2])
     /\ prevVisibleTextNode(h, s[2]) # NIL
     /\ prevVisibleTextNode(h, s[2]) \in Linked(h, s[1])
     /\ nextVisibleTextNode(h, s[1]) # NIL
     /\ nextVisibleTextNode(h, s[1]) \in Linked(h, s[2])}

\* the slot between the elements s[1] and s[2] holds one space after the
\* pass, and it holds nothing
SlotHasOneSpace(s) ==
  LET x == heap[s[1]].NextSibling
  IN x # NIL /\ heap[x].Type = TextNode /\ heap[x].Data = <<SP>>
       /\ heap[x].NextSibling = s[2]

SlotIsEmpty(s) == heap[s[1]].NextSibling = s[2]

\* what C10 says of the slots, which have no content of their own
C10_Slots ==
  \A s \in Slots(heap0) :
    LET d0 == heap0[prevVisibleTextNode(heap0, s[2])].Data
        d1 == heap0[nextVisibleTextNode(heap0, s[1])].Data
    IN SpacedBoundary(d0, d1) =>
         IF BothNonWide(d0, d1) THEN SlotHasOneSpace(s) ELSE SlotIsEmpty(s)

\* C10 (as stated): when a Text node, or a slot, and its visible text
\* neighbour inside the adjacent phrasing element have whitespace on a side
\* of their boundary, the processed node has exactly one space at that edge
\* if both boundary characters are non-wide and no space there if either is
\* wide.
C10_AsStated ==
  op = "processNewLines" =>
    /\ C10_Slots
    /\ \A n \in OutsideTexts(heap0) :
         LET d == heap0[n].Data
             out == heap[n].Data
             nx == NextInside(heap0, n)
             pv == PrevInside(heap0, n)
         IN /\ (nx # NIL /\ SpacedBoundary(d, heap0[nx].Data)) =>
                 IF BothNonWide(d, heap0[nx].Data)
                 THEN OneSpaceAtEnd(out) ELSE NoSpaceAtEnd(out)
            /\ (pv # NIL /\ SpacedBoundary(heap0[pv].Data, d)) =>
                 IF BothNonWide(heap0[pv].Data, d)
                 THEN OneSpaceAtStart(out) ELSE NoSpaceAtStart(out)

\* C10 (amended): as C10, but when either boundary character is wide the
\* pass only adds no space: the processed node has one space at that edge
\* exactly when its own content has a whitespace run without a line feed
\* there, and no space otherwise.
C10_Amended ==
  op = "processNewLines" =>
    /\ C10_Slots
    /\ \A n \in OutsideTexts(heap0) :
         LET d == heap0[n].Data
             out == heap[n].Data
             nx == NextInside(heap0, n)
             pv == PrevInside(heap0, n)
         IN /\ (nx # NIL /\ SpacedBoundary(d, heap0[nx].Data)) =>
                 IF BothNonWide(d, heap0[nx].Data) THEN OneSpaceAtEnd(out)
                 ELSE IF TrailRun(d) # <<>> /\ ~HasLineFeed(TrailRun(d))
                 THEN OneSpaceAtEnd(out)
                 ELSE NoSpaceAtEnd(out)
            /\ (pv # NIL /\ SpacedBoundary(heap0[pv].Data, d)) =>
                 IF BothNonWide(heap0[pv].Data, d) THEN OneSpaceAtStart(out)
                 ELSE IF LeadRun(d) # <<>> /\ ~HasLineFeed(LeadRun(d))
                 THEN OneSpaceAtStart(out)
                 ELSE NoSpaceAtStart(out)

\* the pass kept the space a text has itself before a wide neighbour inside
\* the next element, and left the slot before a newline-led text, whose
\* other side is wide, empty
C10_Witness ==
  /\ op = "processNewLines"
  /\ \E n \in OutsideTexts(heap0) :
       /\ heap0[n].Data = <<LatinA, SP>>
       /\ NextInside(heap0, n) # NIL
       /\ heap0[NextInside(heap0, n)].Data = <<HiraganaA>>
       /\ heap[n].Data = <<LatinA, SP>>
  /\ \E s \in Slots(heap0) :
       /\ SpacedBoundary(heap0[prevVisibleTextNode(heap0, s[2])].Data,
                         heap0[nextVisibleTextNode(heap0, s[1])].Data)
       /\ SlotIsEmpty(s)

(***************************************************************************)
(* processNewLines on a tree without whitespace.                           *)
(***************************************************************************)
\* no Text node of the tree holds an ASCII whitespace character
NoWhitespaceIn(h) ==
  \A n \in Linked(h, root) :
    h[n].Type = TextNode => \A i \in 1..Len(h[n].Data) : ~isASCIIWhitespace(h[n].Data[i])

\* C11: processNewLines leaves a tree in which no Text node holds an ASCII
\* whitespace character unchanged: the same nodes, in the same order, with
\* the same payloads, so no space is inserted and no node added or removed.
C11_NoWhitespaceUnchanged ==
  (op = "processNewLines" /\ NoWhitespaceIn(heap0)) =>
    /\ TreeOf(heap, root) = TreeOf(heap0, root)
    /\ \A n \in Linked(heap0, root) : heap[n] = heap0[n]

\* the pass ran on a tree without whitespace that has a Text node next to an
\* element and two adjacent elements, between which a dummy was inserted
C11_Witness ==
  /\ op = "processNewLines"
  /\ NoWhitespaceIn(heap0)
  /\ Len(heap) > Len(heap0)
  /\ \E n \in Linked(heap0, root) :
       /\ heap0[n].Type = TextNode
       /\ PhrasingElement(heap0, heap0[n].NextSibling)
       /\ PhrasingElement(heap0, heap0[heap0[n].NextSibling].NextSibling)

(***************************************************************************)
(* Non-phrasing elements are opaque to both later passes.                  *)
(***************************************************************************)
NonPhrasingElement(h, n) ==
  n # NIL /\ h[n].Type = ElementNode /\ ~isPhrasingElementName(h[n].Tag)

\* the Text nodes of the tree after processNewLines that the input did not
\* have: the dummy Text nodes the pass kept
KeptDummies == {n \in Linked(heap, root) : n > Len(heap0)}

\* C12 (as stated): neither pass inserts a space or a marker between two
\* sibling elements, or between a Text node and an element, when the element
\* is non-phrasing: no marker stands next to a non-phrasing element, no Text
\* node is added next to one, and a Text node next to one gets no space at
\* that edge that its own content did not have there.
C12_OpaqueBlocks ==
  /\ op = "insertNodeBetweenWideAndNarrow" =>
       \A m \in Marks \cap Linked(heap, root) :
         /\ heap[m].PrevSibling \in Marks \/ ~NonPhrasingElement(heap, heap[m].PrevSibling)
         /\ heap[m].NextSibling \in Marks \/ ~NonPhrasingElement(heap, heap[m].NextSibling)
  /\ op = "processNewLines" =>
       /\ \A n \in KeptDummies :
            /\ ~NonPhrasingElement(heap, heap[n].PrevSibling)
            /\ ~NonPhrasingElement(heap, heap[n].NextSibling)
       /\ \A n \in OutsideTexts(heap0) :
            LET d == heap0[n].Data
                out == heap[n].Data
            IN /\ NonPhrasingElement(heap0, heap0[n].NextSibling) =>
                    \/ NoSpaceAtEnd(out)
                    \/ TrailRun(d) # <<>> /\ ~HasLineFeed(TrailRun(d))
               /\ NonPhrasingElement(heap0, heap0[n].PrevSibling) =>
                    \/ NoSpaceAtStart(out)
                    \/ LeadRun(d) # <<>> /\ ~HasLineFeed(LeadRun(d))

(***************************************************************************)
(* SpecPasses: any of the three passes applied to trees that hold          *)
(* metadata and pre elements, phrasing and non-phrasing elements, and      *)
(* texts with wide and narrow runes and whitespace.                        *)
(***************************************************************************)
ItemsPasses ==
  {TextOf(<<LatinA>>), TextOf(<<SP, LF, HiraganaA, SP>>),
   TextOf(<<SP>>), TextOf(<<LF>>),
   ElementOf("br", <<>>),
   ElementOf("b", <<TextOf(<<HiraganaA, LatinA>>)>>),
   ElementOf("b", <<ElementOf("i", <<>>), ElementOf("i", <<TextOf(<<LatinA, SP>>)>>)>>),
   ElementOf("li", <<TextOf(<<SP, LatinA>>)>>),
   ElementOf("pre", <<TextOf(<<SP, LF>>), ElementOf("b", <<TextOf(<<LatinA, HiraganaA>>)>>)>>),
   ElementOf("pre", <<ElementOf("b", <<>>), ElementOf("b", <<>>), TextOf(<<LF>>)>>),
   ElementOf("script", <<TextOf(<<SP, LatinA, HiraganaA, LF>>)>>),
   ElementOf("b", <<ElementOf("title", <<TextOf(<<SP>>)>>), ElementOf("i", <<>>)>>)}

InitPasses == InitTree(ItemsPasses)

NextPasses ==
  \/ RemoveInterElementWhitespace
  \/ ProcessNewLines
  \/ InsertNodeBetweenWideAndNarrow

SpecPasses == InitPasses /\ [][NextPasses]_vars

\* C13: after processNewLines and after insertNodeBetweenWideAndNarrow no
\* Text node with an empty payload remains in the tree outside metadata/pre
\* subtrees.
C13_NoEmptyText ==
  op \in {"processNewLines", "insertNodeBetweenWideAndNarrow"} =>
    \A n \in OutsideTexts(heap) : heap[n].Data # <<>>

\* processNewLines ran on a tree with two adjacent elements, between which
\* the dummy came and went, and with a Text node whose payload became empty
C13_Witness ==
  /\ op = "processNewLines"
  /\ \E n \in OutsideTexts(heap0) : heap[n].Data = <<>> /\ n \notin Linked(heap, root)
  /\ \E n \in (Len(heap0) + 1)..Len(heap) :
       heap[n].Type = TextNode /\ heap[n].Data = <<>> /\ n \notin Linked(heap, root)

\* C14 (as stated): after each pass the parent and sibling pointers are
\* consistent: every node c in the child list of a node p has Parent p, and
\* PrevSibling and NextSibling are mutual inverses along the child list.
C14_ConsistentPointers ==
  op # "none" =>
    \A p \in Linked(heap, root) :
      LET cs == Children(heap, p)
      IN \A i \in 1..Len(cs) :
           /\ heap[cs[i]].Parent = p
           /\ heap[cs[i]].PrevSibling = (IF i = 1 THEN NIL ELSE cs[i - 1])
           /\ heap[cs[i]].NextSibling = (IF i = Len(cs) THEN NIL ELSE cs[i + 1])

(***************************************************************************)
(* removeComments                                                          *)
(***************************************************************************)
RECURSIVE removeComments(_, _)
RECURSIVE removeCommentsLoop(_, _)

\* a loop that merges the two texts and goes on from the removed one
removeCommentsLoopStaleNext(h, n) ==
  IF n = NIL THEN h
  ELSE LET next == h[n].NextSibling IN
    IF h[n].Type # CommentNode
    THEN removeCommentsLoop(removeComments(h, n), next)
    ELSE LET prev == h[n].PrevSibling
             h1 == RemoveChild(h, h[n].Parent, n)
         IN IF /\ prev # NIL
               /\ h1[prev].Type = TextNode
               /\ next # NIL
               /\ h1[next].Type = TextNode
            THEN LET h2 == [h1 EXCEPT ![prev].Data = h1[prev].Data \o h1[next].Data]
                     h3 == RemoveChild(h2, h2[next].Parent, next)
                 IN removeCommentsLoop(h3, h3[next].NextSibling)
            ELSE removeCommentsLoop(h1, next)

\* a loop that assigns the payload of the next Text node to the previous
\* one where the code appends it
removeCommentsLoopAssign(h, n) ==
  IF n = NIL THEN h
  ELSE LET next == h[n].NextSibling IN
    IF h[n].Type # CommentNode
    THEN removeCommentsLoop(removeComments(h, n), next)
    ELSE LET prev == h[n].PrevSibling
             h1 == RemoveChild(h, h[n].Parent, n)
         IN IF /\ prev # NIL
               /\ h1[prev].Type = TextNode
               /\ next # NIL
               /\ h1[next].Type = TextNode
            THEN LET h2 == [h1 EXCEPT ![prev].Data = h1[next].Data]
                     next2 == h2[next].NextSibling
                     h3 == RemoveChild(h2, h2[next].Parent, next)
                 IN removeCommentsLoop(h3, next2)
            ELSE removeCommentsLoop(h1, next)

\* the loop over the children of node, from child n on
removeCommentsLoop(h, n) ==
  IF n = NIL THEN h
  ELSE LET next == h[n].NextSibling IN
    IF h[n].Type # CommentNode
    THEN removeCommentsLoop(removeComments(h, n), next)
    ELSE LET prev == h[n].PrevSibling
             h1 == RemoveChild(h, h[n].Parent, n)
         IN IF /\ prev # NIL
               /\ h1[prev].Type = TextNode
               /\ next # NIL
               /\ h1[next].Type = TextNode
            THEN LET h2 == [h1 EXCEPT ![prev].Data = h1[prev].Data \o h1[next].Data]
                     next2 == h2[next].NextSibling
                     h3 == RemoveChild(h2, h2[next].Parent, next)
                 IN removeCommentsLoop(h3, next2)
            ELSE removeCommentsLoop(h1, next)

removeComments(h, node) == removeCommentsLoop(h, h[node].FirstChild)

(***************************************************************************)
(* SpecRC: removeComments applied to trees with comments between texts,    *)
(* between elements, in a row, and inside elements.                        *)
(***************************************************************************)
MaxKidsRC == 5

ItemsRC ==
  {TextOf(<<LatinA>>), TextOf(<<HiraganaA, SP>>),
   CommentOf,
   ElementOf("b", <<CommentOf>>),
   ElementOf("pre", <<TextOf(<<LatinA>>), CommentOf, TextOf(<<SP>>)>>)}

\* the trees have at most MaxNodesRC nodes below the root
MaxNodesRC == 11

RECURSIVE NodeCount(_)
NodeCount(kids) ==
  IF Len(kids) = 0 THEN 0
  ELSE 1 + NodeCount(kids[1].kids) + NodeCount(Tail(kids))

InitRC ==
  /\ heap \in {Parse(kids) :
                 kids \in {k \in UNION {[1..n -> ItemsRC] : n \in 0..MaxKidsRC} :
                             NoAdjacentTexts(k) /\ NodeCount(k) <= MaxNodesRC}}
  /\ heap0 = heap
  /\ root = RootId
  /\ ops = <<>>
  /\ tmpl = "none"
  /\ args = <<>>
  /\ ret = "none"
  /\ tasks = NoTasks
  /\ run = NoRun

RemoveComments ==
  /\ ops = <<>>
  /\ heap0' = heap
  /\ heap' = removeComments(heap, root)
  /\ ops' = Append(ops, "removeComments")
  /\ UNCHANGED <<root, tmpl, args, ret, tasks, run>>

NextRC == RemoveComments

SpecRC == InitRC /\ [][NextRC]_vars

RECURSIVE MergedKids(_, _, _)
\* the child list cs of the tree h without its comments, as pairs of a node
\* and a payload: each run of Text nodes that only comments separated is the
\* first Text node of the run with the payloads of the run in order; acc is
\* the result for the children before cs
MergedKids(h, cs, acc) ==
  IF Len(cs) = 0 THEN acc
  ELSE LET c == cs[1] IN
    IF h[c].Type = CommentNode THEN MergedKids(h, Tail(cs), acc)
    ELSE IF /\ h[c].Type = TextNode
            /\ Len(acc) > 0
            /\ h[acc[Len(acc)].id].Type = TextNode
    THEN MergedKids(h, Tail(cs),
                    [acc EXCEPT ![Len(acc)].data = acc[Len(acc)].data \o h[c].Data])
    ELSE MergedKids(h, Tail(cs), Append(acc, [id |-> c, data |-> h[c].Data]))

\* the child list of p in the tree h, as pairs of a node and a payload
KidsOf(h, p) ==
  [i \in 1..Len(Children(h, p)) |->
     [id |-> Children(h, p)[i], data |-> h[Children(h, p)[i]].Data]]

\* C15: after removeComments the tree holds no Comment node, the Text nodes
\* that removed comments separated are merged into one with the payloads in
\* order, every other node stays where it was, and no two Text nodes are
\* adjacent siblings.
C15_CommentsRemoved ==
  op = "removeComments" =>
    /\ \A n \in Linked(heap, root) : heap[n].Type # CommentNode
    /\ \A p \in Linked(heap0, root) :
         heap0[p].Type # CommentNode =>
           /\ p \in Linked(heap, root) \/ heap0[p].Type = TextNode
           /\ p \in Linked(heap, root) =>
                KidsOf(heap, p) = MergedKids(heap0, Children(heap0, p), <<>>)
    /\ \A n \in Linked(heap, root) :
         (heap[n].Type = TextNode /\ heap[n].NextSibling # NIL)
           => heap[heap[n].NextSibling].Type # TextNode

\* removeComments ran on text, comment, text, comment, text and merged the
\* three texts into the first
C15_Witness ==
  /\ op = "removeComments"
  /\ LET cs == Children(heap0, root)
     IN /\ Len(cs) = 5
        /\ \A i \in {1, 3, 5} : heap0[cs[i]].Type = TextNode
        /\ \A i \in {2, 4} : heap0[cs[i]].Type = CommentNode
        /\ Children(heap, root) = <<cs[1]>>
        /\ heap[cs[1]].Data = heap0[cs[1]].Data \o heap0[cs[3]].Data \o heap0[cs[5]].Data
        /\ heap0[cs[1]].Data # heap0[cs[3]].Data

(***************************************************************************)
(* The metadata and pre elements under the three passes.                   *)
(***************************************************************************)
\* the elements of the tree h that C16 names
SkippedElements(h) ==
  {e \in Linked(h, root) :
     /\ h[e].Type = ElementNode
     /\ h[e].Tag \in {"base", "link", "meta", "noscript", "script", "style",
                      "template", "title", "pre"}}

\* C16: none of the three passes modifies anything inside a metadata element
\* or pre: the subtree of such an element has the same nodes, in the same
\* order, with the same payloads before and after the pass.
C16_SkippedUntouched ==
  op \in {"removeInterElementWhitespace", "processNewLines",
          "insertNodeBetweenWideAndNarrow"} =>
    \A e \in SkippedElements(heap0) :
      /\ e \in Linked(heap, root)
      /\ TreeOf(heap, e) = TreeOf(heap0, e)

\* a pass changed the tree around a pre element that holds two adjacent
\* elements and a whitespace text with a line feed, and left it as it was
C16_Witness ==
  /\ op \in {"processNewLines", "insertNodeBetweenWideAndNarrow"}
  /\ TreeOf(heap, root) # TreeOf(heap0, root)
  /\ \E e \in SkippedElements(heap0) :
       /\ heap0[e].Tag = "pre"
       /\ Len(Children(heap0, e)) = 3
       /\ heap0[heap0[e].FirstChild].Type = ElementNode
       /\ heap0[heap0[e].LastChild].Data = <<LF>>
       /\ TreeOf(heap, e) = TreeOf(heap0, e)

(***************************************************************************)
(* The template and the markers.                                           *)
(***************************************************************************)
\* C17: insertNodeBetweenWideAndNarrow never links the template into the
\* tree and never modifies it; every marker is a fresh node with the type,
\* tag, namespace and attributes of the template, the attributes in an array
\* that neither the template nor another marker points to.
C17_FreshMarkers ==
  op = "insertNodeBetweenWideAndNarrow" =>
    LET before == WithTemplate(heap0, tmpl)
    IN /\ \A n \in (Len(heap0) + 1)..Len(before) : heap[n] = before[n]
       /\ TemplateId \notin Linked(heap, root)
       /\ \A m \in Marks :
            /\ heap[m].Type = before[TemplateId].Type
            /\ heap[m].Tag = before[TemplateId].Tag
            /\ heap[m].Namespace = before[TemplateId].Namespace
            /\ heap[m].Attr > Len(before)
            /\ heap[heap[m].Attr].Type = AttributeArray
            /\ heap[heap[m].Attr].Data = tmpl.attr
            /\ \A m2 \in Marks \ {m} : heap[m2].Attr # heap[m].Attr

\* the pass inserted two markers for a template in a namespace that has two
\* attributes
C17_Witness ==
  /\ op = "insertNodeBetweenWideAndNarrow"
  /\ tmpl.ns = "math"
  /\ Len(tmpl.attr) = 2
  /\ Cardinality(Marks \cap Linked(heap, root)) >= 2

(***************************************************************************)
(* SpecGen: generateHTMLs.  The walk starts one generateHTML task for each *)
(* document, the tasks run concurrently, and Wait gives the first error.   *)
(* tasks[d] is the task of document d: its input, the step it is at, its   *)
(* tree, the passes that ran on it, its output file and its error.  run is *)
(* the caller: the step it is at, the document the walk visits next, the   *)
(* error of the errgroup and the error Run returns.  The tree of a task is *)
(* the content of the document; the elements generateHTML adds to head are *)
(* metadata, which the passes skip.                                        *)
(***************************************************************************)
NumDocs == 2

Docs == 1..NumDocs

\* getElement with the test of getElementByName: the first element below
\* node, in document order, that has the name
RECURSIVE getElementByName(_, _, _)
RECURSIVE getElementFrom(_, _, _)

\* the loop of getElement, from child n on
getElementFrom(h, n, name) ==
  IF n = NIL THEN NIL
  ELSE IF h[n].Type # ElementNode THEN getElementFrom(h, h[n].NextSibling, name)
  ELSE IF h[n].Tag = name THEN n
  ELSE LET m == getElementByName(h, n, name)
       IN IF m # NIL THEN m ELSE getElementFrom(h, h[n].NextSibling, name)

getElementByName(h, node, name) == getElementFrom(h, h[node].FirstChild, name)

\* getElementByName(htmle, "h1").FirstChild.Data dereferences a nil pointer
titlePanics(h) ==
  LET h1 == getElementByName(h, RootId, "h1")
  IN h1 = NIL \/ h[h1].FirstChild = NIL

\* the documents: the index page, a page with a title, a page without h1,
\* a page with an empty h1, and a file that cannot be opened
DocInputs ==
  {[path |-> "index.html", readable |-> TRUE,
    kids |-> <<TextOf(<<LatinA, SP, LF>>), CommentOf,
               ElementOf("b", <<TextOf(<<HiraganaA>>)>>)>>],
   [path |-> "page.html", readable |-> TRUE,
    kids |-> <<ElementOf("h1", <<TextOf(<<LatinA, HiraganaA, LF>>), CommentOf,
                                 TextOf(<<HiraganaA>>)>>),
               TextOf(<<SP>>), ElementOf("div", <<>>)>>],
   [path |-> "page.html", readable |-> TRUE, kids |-> <<TextOf(<<LatinA>>)>>],
   [path |-> "page.html", readable |-> TRUE, kids |-> <<ElementOf("h1", <<>>)>>],
   [path |-> "page.html", readable |-> FALSE, kids |-> <<>>]}

NoFile == [state |-> "absent", tree |-> <<>>]

\* the template generateHTML passes to insertNodeBetweenWideAndNarrow
SpanTemplate ==
  [tag |-> "span", ns |-> "", attr |-> <<[Key |-> "class", Val |-> "thin-space"]>>]

\* a step order with processNewLines before removeInterElementWhitespace
StepAfterNewLinesFirst(step) ==
  CASE step = "open" -> "title"
    [] step = "title" -> "removeComments"
    [] step = "removeComments" -> "processNewLines"
    [] step = "processNewLines" -> "removeInterElementWhitespace"
    [] step = "removeInterElementWhitespace" -> "insertNodeBetweenWideAndNarrow"
    [] step = "insertNodeBetweenWideAndNarrow" -> "create"
    [] step = "create" -> "render"
    [] step = "render" -> "done"

\* the step of generateHTML that follows a step
StepAfter(step) ==
  CASE step = "open" -> "title"
    [] step = "title" -> "removeComments"
    [] step = "removeComments" -> "removeInterElementWhitespace"
    [] step = "removeInterElementWhitespace" -> "processNewLines"
    [] step = "processNewLines" -> "insertNodeBetweenWideAndNarrow"
    [] step = "insertNodeBetweenWideAndNarrow" -> "create"
    [] step = "create" -> "render"
    [] step = "render" -> "done"

InitGen ==
  /\ tasks \in [Docs -> {[in |-> i, pc |-> "idle", heap |-> <<>>, ops |-> <<>>,
                          out |-> NoFile, err |-> ""] : i \in DocInputs}]
  /\ run = [pc |-> "walk", next |-> 1, groupErr |-> "", err |-> ""]
  /\ heap = <<>>
  /\ heap0 = <<>>
  /\ root = RootId
  /\ ops = <<>>
  /\ tmpl = "none"
  /\ args = <<>>
  /\ ret = "none"

\* the process is alive: no goroutine has panicked and main has not exited
Alive == run.pc \in {"walk", "wait", "returned"}

\* the walk visits the next document and starts its task with wg.Go
WalkSpawn ==
  /\ run.pc = "walk"
  /\ run.next <= NumDocs
  /\ tasks' = [tasks EXCEPT ![run.next].pc = "open"]
  /\ run' = [run EXCEPT !.next = run.next + 1]
  /\ UNCHANGED <<heap, root, heap0, ops, tmpl, args, ret>>

\* the walk gets an error for the next file: generateHTMLs returns it, and
\* so does Run
WalkError ==
  /\ run.pc = "walk"
  /\ run.next <= NumDocs
  /\ run' = [run EXCEPT !.pc = "returned", !.err = "walk"]
  /\ UNCHANGED <<heap, root, heap0, ops, tmpl, args, ret, tasks>>

\* the walk is over: generateHTMLs calls wg.Wait
WalkDone ==
  /\ run.pc = "walk"
  /\ run.next = NumDocs + 1
  /\ run' = [run EXCEPT !.pc = "wait"]
  /\ UNCHANGED <<heap, root, heap0, ops, tmpl, args, ret, tasks>>

\* wg.Wait returns when every task has ended: with the first error of the
\* group, or, if the group has caught the panic of a task, it panics
Wait ==
  /\ run.pc = "wait"
  /\ \A d \in Docs : tasks[d].pc \in {"done", "failed", "panicked"}
  /\ run' = IF \E d \in Docs : tasks[d].pc = "panicked"
            THEN [run EXCEPT !.pc = "crashed"]
            ELSE [run EXCEPT !.pc = "returned", !.err = run.groupErr]
  /\ UNCHANGED <<heap, root, heap0, ops, tmpl, args, ret, tasks>>

\* main has the result of Run and the process ends
Exit ==
  /\ run.pc = "returned"
  /\ run' = [run EXCEPT !.pc = "exited"]
  /\ UNCHANGED <<heap, root, heap0, ops, tmpl, args, ret, tasks>>

\* os.Open and html.Parse
GenOpen(d) ==
  /\ Alive
  /\ tasks[d].pc = "open"
  /\ IF tasks[d].in.readable
     THEN /\ tasks' = [tasks EXCEPT ![d].pc = StepAfter("open"),
                                    ![d].heap = Parse(tasks[d].in.kids)]
          /\ UNCHANGED run
     ELSE /\ tasks' = [tasks EXCEPT ![d].pc = "failed", ![d].err = "open"]
          /\ run' = [run EXCEPT !.groupErr = IF run.groupErr = "" THEN "open"
                                             ELSE run.groupErr]
  /\ UNCHANGED <<heap, root, heap0, ops, tmpl, args, ret>>

\* the title of a page that is not the index: the text of its h1.  A nil
\* pointer dereference panics in the goroutine of the task: the process
\* dies, or the group catches the panic for Wait
GenTitle(d) ==
  /\ Alive
  /\ tasks[d].pc = "title"
  /\ IF tasks[d].in.path # "index.html" /\ titlePanics(tasks[d].heap)
     THEN \/ /\ run' = [run EXCEPT !.pc = "crashed"]
             /\ UNCHANGED tasks
          \/ /\ tasks' = [tasks EXCEPT ![d].pc = "panicked"]
             /\ UNCHANGED run
     ELSE /\ tasks' = [tasks EXCEPT ![d].pc = StepAfter("title")]
          /\ UNCHANGED run
  /\ UNCHANGED <<heap, root, heap0, ops, tmpl, args, ret>>

\* task d is at the pass: the pass makes the tree h of its tree
GenPass(d, pass, h) ==
  /\ Alive
  /\ tasks[d].pc = pass
  /\ tasks' = [tasks EXCEPT ![d].pc = StepAfter(pass),
                            ![d].heap = h,
                            ![d].ops = Append(tasks[d].ops, pass)]
  /\ UNCHANGED <<heap, root, heap0, ops, tmpl, args, ret, run>>

GenRemoveComments(d) ==
  GenPass(d, "removeComments", removeComments(tasks[d].heap, RootId))

GenRemoveInterElementWhitespace(d) ==
  GenPass(d, "removeInterElementWhitespace",
          removeInterElementWhitespace(tasks[d].heap, RootId))

GenProcessNewLines(d) ==
  GenPass(d, "processNewLines", processNewLines(tasks[d].heap, RootId))

GenInsertNodeBetweenWideAndNarrow(d) ==
  GenPass(d, "insertNodeBetweenWideAndNarrow",
          insertNodeBetweenWideAndNarrow(WithTemplate(tasks[d].heap, SpanTemplate),
                                         RootId, Len(tasks[d].heap) + 1))

\* os.MkdirAll and os.Create: the output file exists and is empty
GenCreate(d) ==
  /\ Alive
  /\ tasks[d].pc = "create"
  /\ tasks' = [tasks EXCEPT ![d].pc = StepAfter("create"),
                            ![d].out = [state |-> "created", tree |-> <<>>]]
  /\ UNCHANGED <<heap, root, heap0, ops, tmpl, args, ret, run>>

\* html.Render and Flush: the output file holds the tree
GenRender(d) ==
  /\ Alive
  /\ tasks[d].pc = "render"
  /\ tasks' = [tasks EXCEPT ![d].pc = StepAfter("render"),
                            ![d].out = [state |-> "rendered",
                                        tree |-> TreeOf(tasks[d].heap, RootId)]]
  /\ UNCHANGED <<heap, root, heap0, ops, tmpl, args, ret, run>>

NextGen ==
  \/ WalkSpawn
  \/ WalkError
  \/ WalkDone
  \/ Wait
  \/ Exit
  \/ \E d \in Docs :
       \/ GenOpen(d)
       \/ GenTitle(d)
       \/ GenRemoveComments(d)
       \/ GenRemoveInterElementWhitespace(d)
       \/ GenProcessNewLines(d)
       \/ GenInsertNodeBetweenWideAndNarrow(d)
       \/ GenCreate(d)
       \/ GenRender(d)

SpecGen == InitGen /\ [][NextGen]_vars

(***************************************************************************)
(* C18: the order of the passes in generateHTML                            *)
(***************************************************************************)
C18_Order ==
  <<"removeComments", "removeInterElementWhitespace", "processNewLines",
    "insertNodeBetweenWideAndNarrow">>

\* the tree of a document after the first k passes of C18_Order
RECURSIVE C18_Tree(_, _)
C18_Tree(in, k) ==
  IF k = 0 THEN Parse(in.kids)
  ELSE LET h == C18_Tree(in, k - 1)
       IN CASE k = 1 -> removeComments(h, RootId)
            [] k = 2 -> removeInterElementWhitespace(h, RootId)
            [] k = 3 -> processNewLines(h, RootId)
            [] k = 4 -> insertNodeBetweenWideAndNarrow(WithTemplate(h, SpanTemplate),
                                                       RootId, Len(h) + 1)

\* C18: in every generateHTML task the passes that have run are the first
\* passes of the order removeComments, removeInterElementWhitespace,
\* processNewLines, insertNodeBetweenWideAndNarrow, each once; the tree of
\* the task is the parsed document with these passes applied in this order;
\* the output file is created only when all four have run, and what is
\* rendered is the tree after the fourth.
C18_PassesInOrder ==
  \A d \in Docs :
    LET t == tasks[d]
    IN /\ Len(t.ops) <= 4
       /\ t.ops = SubSeq(C18_Order, 1, Len(t.ops))
       /\ t.pc \in {"idle", "open", "failed"} => t.heap = <<>> /\ t.ops = <<>>
       /\ t.pc \notin {"idle", "open", "failed"} => t.heap = C18_Tree(t.in, Len(t.ops))
       /\ t.pc \in {"create", "render", "done"} => Len(t.ops) = 4
       /\ t.out.state # "absent" => Len(t.ops) = 4
       /\ t.out.state = "rendered" => t.out.tree = TreeOf(C18_Tree(t.in, 4), RootId)

\* a document on which each of the four passes changed the tree is rendered
C18_Witness ==
  \E d \in Docs :
    /\ tasks[d].pc = "done"
    /\ tasks[d].out.state = "rendered"
    /\ tasks[d].ops = C18_Order
    /\ \A k \in 1..4 : TreeOf(C18_Tree(tasks[d].in, k), RootId)
                        # TreeOf(C18_Tree(tasks[d].in, k - 1), RootId)

(***************************************************************************)
(* C19: a failure in one document and the tasks of the other documents     *)
(***************************************************************************)
\* the pipeline of the document itself fails: its file cannot be opened, or
\* it is a page other than the index without h1 or with an empty h1
C19_Fails(in) ==
  \/ ~in.readable
  \/ in.path # "index.html" /\ titlePanics(Parse(in.kids))

\* C19: a failure in the task of one document does not keep the tasks of the
\* other documents from completing and writing their output, and it is only
\* reported as the error Run returns: the process ends only after Run has
\* returned; when Run has returned after a walk without error, the output
\* of every document whose own pipeline does not fail is rendered, and Run
\* returns an error exactly if the pipeline of some document failed.
C19_FailureIsolated ==
  /\ run.pc # "crashed"
  /\ run.pc \in {"returned", "exited"} /\ run.err # "walk" =>
       /\ \A d \in Docs : ~C19_Fails(tasks[d].in) => tasks[d].out.state = "rendered"
       /\ run.err # "" <=> \E d \in Docs : C19_Fails(tasks[d].in)

\* the same with the failures that are error returns only: no document
\* makes its task panic
C19_ErrorReturnsIsolated ==
  (\A d \in Docs : tasks[d].in.readable => ~C19_Fails(tasks[d].in)) => C19_FailureIsolated

\* a page without h1 has ended the process while the task of a document
\* whose pipeline does not fail had not written its output
C19_Crash ==
  /\ run.pc = "crashed"
  /\ \E d \in Docs : ~C19_Fails(tasks[d].in) /\ tasks[d].out.state # "rendered"

(***************************************************************************)
(* C20: processNewLines in place and from a snapshot                       *)
(***************************************************************************)
RECURSIVE C20_SnapshotTexts(_, _, _)
RECURSIVE C20_SnapshotElements(_, _)
RECURSIVE C20_Snapshot(_, _)

\* the text loop with every replacement computed from the tree snap, in
\* which no Text node has been rewritten, from child n on
C20_SnapshotTexts(h, snap, n) ==
  IF n = NIL THEN h
  ELSE IF h[n].Type # TextNode THEN C20_SnapshotTexts(h, snap, h[n].NextSibling)
  ELSE C20_SnapshotTexts([h EXCEPT ![n].Data = newLinesData(snap, n)], snap,
                         h[n].NextSibling)

C20_SnapshotElements(h, n) ==
  IF n = NIL THEN h
  ELSE IF h[n].Type = TextNode THEN C20_SnapshotElements(h, h[n].NextSibling)
  ELSE LET h1 == C20_Snapshot(h, n)
       IN C20_SnapshotElements(h1, h1[n].NextSibling)

\* processNewLines with the replacements of the Text children of a node
\* computed before any of them is applied.  The lookups of a Text node go
\* to its siblings and into their subtrees and never leave its parent, and
\* the subtrees of the sibling elements are rewritten after the text loop
\* of the parent, so the tree before the text loop of each node is the
\* snapshot of everything that loop reads.
C20_Snapshot(h, node) ==
  IF isSkippedElement(h, node) THEN h
  ELSE LET h1 == insertDummyTextNodes(h, h[node].FirstChild)
           h2 == C20_SnapshotTexts(h1, h1, h1[node].FirstChild)
           h3 == C20_SnapshotElements(h2, h2[node].FirstChild)
       IN removeDummyTextNodes(h3, h3[node].FirstChild)

\* C20: the tree processNewLines produces in place, rewriting the Text nodes
\* from left to right, is the tree produced by computing the replacement of
\* every Text node from the unmodified tree and applying them afterwards.
C20_InPlaceEqualsSnapshot ==
  op = "processNewLines" => TreeOf(heap, root) = TreeOf(C20_Snapshot(heap0, root), root)

\* no Text node of the tree consists of ASCII whitespace only
C20_NoBlankText(h) ==
  \A n \in Linked(h, root) : h[n].Type = TextNode => Trim(h[n].Data) # <<>>

\* the two computations agree on the trees without such a Text node: they
\* differ only where the lookup of a later Text node meets a Text node of
\* ASCII whitespace that the pass has already emptied or rewritten
C20_EqualWithoutBlankText ==
  (op = "processNewLines" /\ C20_NoBlankText(heap0)) =>
    TreeOf(heap, root) = TreeOf(C20_Snapshot(heap0, root), root)

\* the pass has emptied a Text node of ASCII whitespace that the snapshot
\* gives to a later Text node as its previous visible text, and the later
\* Text node has no space at its start where the snapshot puts one
C20_Differs ==
  /\ op = "processNewLines"
  /\ \E n \in Linked(heap, root) :
       /\ heap[n].Type = TextNode
       /\ n <= Len(heap0)
       /\ prevVisibleTextNode(heap0, n) # NIL
       /\ Trim(heap0[prevVisibleTextNode(heap0, n)].Data) = <<>>
       /\ heap[n].Data # C20_Snapshot(heap0, root)[n].Data

(***************************************************************************)
(* C21: the Text children without content of their own                     *)
(***************************************************************************)
\* the tree when the text loop of the root starts: the slots between two
\* adjacent child elements hold an empty Text node each
C21_Input == insertDummyTextNodes(heap0, heap0[root].FirstChild)

\* the siblings before n
RECURSIVE C21_Before(_, _)
C21_Before(h, n) ==
  IF h[n].PrevSibling = NIL THEN {}
  ELSE {h[n].PrevSibling} \cup C21_Before(h, h[n].PrevSibling)

\* the Text children of the root that are empty or hold only ASCII
\* whitespace with a line feed in it
C21_Blanks ==
  LET h == C21_Input
      last == h[root].LastChild
  IN IF last = NIL THEN {}
     ELSE {n \in C21_Before(h, last) \cup {last} :
             /\ h[n].Type = TextNode
             /\ Trim(h[n].Data) = <<>>
             /\ h[n].Data = <<>> \/ HasLineFeed(h[n].Data)}

\* the tree when the text loop comes to n: the Text children before n have
\* the content the loop has given them
C21_At(n) ==
  LET h == C21_Input
  IN [m \in 1..Len(h) |->
        IF m \in C21_Before(h, n) /\ h[m].Type = TextNode
        THEN [h[m] EXCEPT !.Data = heap[m].Data] ELSE h[m]]

\* neither the last character of d0 nor the first of d1 is wide, a run of
\* whitespace with a line feed at that end left out
C21_NeitherWide(d0, d1) ==
  LET e0 == WithoutLineFeedTail(d0)
      e1 == WithoutLineFeedHead(d1)
  IN /\ e0 = <<>> \/ ~WideRune(e0[Len(e0)])
     /\ e1 = <<>> \/ ~WideRune(e1[1])

MaxTextLen == 4

TextRunes == {LatinA, HiraganaA, SP, LF, TAB, FF, CR}

\* the sequences over s of length n, and of length n at most
RECURSIVE SeqsOfLen(_, _)
SeqsOfLen(s, n) ==
  IF n = 0 THEN {<<>>}
  ELSE {Append(q, r) : q \in SeqsOfLen(s, n - 1), r \in s}

SeqsUpTo(s, n) == UNION {SeqsOfLen(s, k) : k \in 0..n}

TextContexts ==
  {<<>>, <<ElementOf("b", <<TextOf(<<LatinA>>)>>)>>,
   <<ElementOf("b", <<TextOf(<<HiraganaA, SP>>)>>)>>}

\* html.Parse makes no Text node without content
TextLists ==
  {before \o <<TextOf(d)>> \o after :
     before \in TextContexts, after \in TextContexts,
     d \in SeqsUpTo(TextRunes, MaxTextLen) \ {<<>>}}

InitText ==
  /\ heap \in {Parse(kids) : kids \in TextLists}
  /\ heap0 = heap
  /\ root = RootId
  /\ ops = <<>>
  /\ tmpl = "none"
  /\ args = <<>>
  /\ ret = "none"
  /\ tasks = NoTasks
  /\ run = NoRun

NextText == ProcessNewLines

SpecText == InitText /\ [][NextText]_vars

(***************************************************************************)
(* C22: the whitespace runs inside a Text node                             *)
(***************************************************************************)
\* s, which begins and ends with a character that is no whitespace, with
\* every run of whitespace replaced: by nothing if the run holds a line feed
\* and the character before or after it is wide, by one space otherwise
RECURSIVE C22_Collapsed(_, _)
C22_Collapsed(s, c0) ==
  IF s = <<>> THEN <<>>
  ELSE IF ~isASCIIWhitespace(s[1]) THEN <<s[1]>> \o C22_Collapsed(Tail(s), s[1])
  ELSE LET r == LeadRun(s)
           rest == TrimLeft(s)
       IN (IF HasLineFeed(r) /\ (WideRune(c0) \/ WideRune(rest[1]))
           THEN <<>> ELSE <<SP>>) \o C22_Collapsed(rest, c0)

\* C22: in a Text node outside metadata/pre subtrees, between its first and
\* its last character that is no whitespace, each maximal run of ASCII
\* whitespace with a line feed becomes one space if the characters on both
\* sides are non-wide and nothing if one is wide, each run without a line
\* feed becomes one space, and every other character stays.
C22_InnerRuns ==
  op = "processNewLines" =>
    \A n \in OutsideTexts(heap0) :
      Trim(heap0[n].Data) # <<>> =>
        Trim(heap[n].Data) = C22_Collapsed(Trim(heap0[n].Data), NoRune)

\* the pass removed a run with a line feed next to a wide character, and
\* kept a run without one next to a wide character as one space
C22_Witness ==
  /\ op = "processNewLines"
  /\ \E n \in OutsideTexts(heap0) :
       \/ heap0[n].Data = <<LatinA, SP, LF, HiraganaA>> /\ heap[n].Data = <<LatinA, HiraganaA>>
       \/ heap0[n].Data = <<HiraganaA, TAB, SP, LatinA>> /\ heap[n].Data = <<HiraganaA, SP, LatinA>>
       \/ heap0[n].Data = <<LatinA, TAB, LF, LatinA>> /\ heap[n].Data = <<LatinA, SP, LatinA>>

(***************************************************************************)
(* C23: the whitespace left in the Text nodes                              *)
(***************************************************************************)
\* C23: after processNewLines no Text node outside metadata/pre subtrees
\* holds a tab, a line feed, a form feed or a carriage return, and none
\* holds two space characters in a row.
C23_OnlySingleSpaces ==
  op = "processNewLines" =>
    \A n \in OutsideTexts(heap) :
      LET d == heap[n].Data
      IN /\ \A i \in 1..Len(d) : d[i] \notin {TAB, LF, FF, CR}
         /\ \A i \in 1..(Len(d) - 1) : ~(d[i] = SP /\ d[i + 1] = SP)

\* the pass ran on a Text node with a tab, a form feed or a carriage return
\* beside a space, and the node is in the tree with a space
C23_Witness ==
  /\ op = "processNewLines"
  /\ \E n \in OutsideTexts(heap) :
       /\ n <= Len(heap0)
       /\ \E i \in 1..(Len(heap0[n].Data) - 1) :
            /\ heap0[n].Data[i] \in {TAB, FF, CR}
            /\ heap0[n].Data[i + 1] = SP
       /\ \E i \in 1..Len(heap[n].Data) : heap[n].Data[i] = SP

(***************************************************************************)
(* SpecNav: nextVisibleNode and prevVisibleNode called on a node of a tree *)
(* with nested phrasing and non-phrasing elements.                         *)
(***************************************************************************)
ItemsNav ==
  {TextOf(<<LatinA>>),
   ElementOf("br", <<>>),
   ElementOf("b", <<TextOf(<<LatinA>>)>>),
   ElementOf("b", <<ElementOf("i", <<TextOf(<<LatinA>>)>>)>>),
   ElementOf("b", <<TextOf(<<LatinA>>), ElementOf("i", <<>>)>>),
   ElementOf("li", <<TextOf(<<LatinA>>)>>),
   ElementOf("b", <<ElementOf("li", <<TextOf(<<LatinA>>)>>)>>)}

InitNav == InitTree(ItemsNav)

CallNextVisibleNode ==
  \E n \in Linked(heap, root) :
    /\ args' = <<n>>
    /\ ret' = nextVisibleNode(heap, n)
    /\ ops' = <<"nextVisibleNode">>
    /\ UNCHANGED <<heap, root, heap0, tmpl, tasks, run>>

CallPrevVisibleNode ==
  \E n \in Linked(heap, root) :
    /\ args' = <<n>>
    /\ ret' = prevVisibleNode(heap, n)
    /\ ops' = <<"prevVisibleNode">>
    /\ UNCHANGED <<heap, root, heap0, tmpl, tasks, run>>

NextNav == CallNextVisibleNode \/ CallPrevVisibleNode

SpecNav == InitNav /\ [][NextNav]_vars

(***************************************************************************)
(* C24: where nextVisibleNode and prevVisibleNode look                     *)
(***************************************************************************)
\* the node at which the descent from n along the first children (fwd) or
\* the last children ends, NIL if an element on the way is not phrasing
RECURSIVE C24_Descent(_, _, _)
C24_Descent(h, n, fwd) ==
  LET c == IF fwd THEN h[n].FirstChild ELSE h[n].LastChild
  IN IF h[n].Type = ElementNode /\ ~isPhrasingElementName(h[n].Tag) THEN NIL
     ELSE IF c = NIL THEN n
     ELSE C24_Descent(h, c, fwd)

\* the nearest of n and its ancestors that has a sibling on that side, NIL
\* if none has
RECURSIVE C24_WithSibling(_, _, _)
C24_WithSibling(h, n, fwd) ==
  IF (IF fwd THEN h[n].NextSibling ELSE h[n].PrevSibling) # NIL THEN n
  ELSE IF h[n].Parent = NIL THEN NIL
  ELSE C24_WithSibling(h, h[n].Parent, fwd)

C24_Ascending(h, n, fwd) ==
  LET a == C24_WithSibling(h, n, fwd)
  IN IF a = NIL THEN NIL
     ELSE C24_Descent(h, IF fwd THEN h[a].NextSibling ELSE h[a].PrevSibling, fwd)

C24_Forward == op = "nextVisibleNode"

C24_Called == op \in {"nextVisibleNode", "prevVisibleNode"}

\* C24 (as stated): for a node without a next (previous) sibling the search
\* goes on from the sibling of the nearest ancestor that has one; the result
\* is nil only if no ancestor has one or the descent meets an element that
\* is not phrasing.
C24_AsStated ==
  C24_Called => ret = C24_Ascending(heap, args[1], C24_Forward)

\* C24 (amended): the result is nil whenever the node itself has no next
\* (previous) sibling, whatever siblings its ancestors have; otherwise it is
\* the end of the descent from that sibling along the first (last) children,
\* or nil if the sibling or an element met on the descent is not phrasing.
C24_Amended ==
  C24_Called =>
    LET n == args[1]
        s == IF C24_Forward THEN heap[n].NextSibling ELSE heap[n].PrevSibling
    IN ret = IF s = NIL THEN NIL ELSE C24_Descent(heap, s, C24_Forward)

\* the call was made on the last child of an element that has a next
\* sibling with visible text, and gave nil
C24_Witness ==
  /\ op = "nextVisibleNode"
  /\ heap[args[1]].NextSibling = NIL
  /\ C24_Ascending(heap, args[1], TRUE) # NIL
  /\ heap[C24_Ascending(heap, args[1], TRUE)].Type = TextNode
  /\ ret = NIL

(***************************************************************************)
(* SpecAll: each of the four passes applied to trees with comments, text   *)
(* with whitespace, phrasing and non-phrasing elements and pre.            *)
(***************************************************************************)
ItemsAll ==
  {TextOf(<<LatinA, SP, LF>>), TextOf(<<SP, HiraganaA>>), TextOf(<<SP>>),
   CommentOf,
   ElementOf("br", <<>>),
   ElementOf("b", <<TextOf(<<HiraganaA, LatinA, SP>>)>>),
   ElementOf("b", <<TextOf(<<SP>>), CommentOf, TextOf(<<LF, LatinA>>)>>),
   ElementOf("li", <<TextOf(<<LatinA>>)>>),
   ElementOf("pre", <<TextOf(<<SP, LF, LatinA>>)>>)}

InitAll == InitTree(ItemsAll)

\* insertNodeBetweenWideAndNarrow on the tree processNewLines has made, as
\* generateHTML calls it
InsertNodeAfterProcessNewLines ==
  /\ op = "processNewLines"
  /\ Len(ops) < MaxSteps
  /\ tmpl' = SpanTemplate
  /\ heap' = insertNodeBetweenWideAndNarrow(WithTemplate(heap, SpanTemplate), root,
                                            Len(heap) + 1)
  /\ heap0' = heap
  /\ ops' = Append(ops, "insertNodeBetweenWideAndNarrow")
  /\ UNCHANGED <<root, args, ret, tasks, run>>

NextAll ==
  \/ RemoveComments
  \/ RemoveInterElementWhitespace
  \/ ProcessNewLines
  \/ InsertNodeBetweenWideAndNarrow
  \/ InsertNodeAfterProcessNewLines

SpecAll == InitAll /\ [][NextAll]_vars

(***************************************************************************)
(* C25: the characters of the document                                     *)
(***************************************************************************)
\* the payloads of the Text nodes below n, in document order, concatenated
RECURSIVE C25_Text(_, _)
RECURSIVE C25_TextFrom(_, _)
C25_TextFrom(h, n) ==
  IF n = NIL THEN <<>> ELSE C25_Text(h, n) \o C25_TextFrom(h, h[n].NextSibling)

C25_Text(h, n) ==
  IF h[n].Type = TextNode THEN h[n].Data ELSE C25_TextFrom(h, h[n].FirstChild)

\* s without its ASCII whitespace characters
C25_Visible(s) == SelectSeq(s, LAMBDA r : ~isASCIIWhitespace(r))

\* C25: each pass leaves the characters of the document that are no ASCII
\* whitespace as they are, each once and in the same order; after
\* insertNodeBetweenWideAndNarrow the whole text of the document is the
\* same, whitespace included.
C25_CharactersKept ==
  op # "none" =>
    /\ C25_Visible(C25_Text(heap, root)) = C25_Visible(C25_Text(heap0, root))
    /\ op = "insertNodeBetweenWideAndNarrow" =>
         C25_Text(heap, root) = C25_Text(heap0, root)

\* the pass changed the tree of a document with a wide and a narrow
\* character: removeComments merged two Text nodes, or processNewLines
\* changed the whitespace, or insertNodeBetweenWideAndNarrow split a Text
C25_Witness ==
  /\ op \in {"removeComments", "processNewLines", "insertNodeBetweenWideAndNarrow"}
  /\ TreeOf(heap, root) # TreeOf(heap0, root)
  /\ \E i, j \in 1..Len(C25_Text(heap, root)) :
       /\ i < j
       /\ C25_Text(heap, root)[i] = HiraganaA
       /\ C25_Text(heap, root)[j] = LatinA
  /\ \/ op = "removeComments" /\ Len(heap) = Len(heap0)
          /\ \E n \in Linked(heap, root) :
               heap[n].Type = TextNode /\ heap[n].Data # heap0[n].Data
     \/ op = "processNewLines" /\ C25_Text(heap, root) # C25_Text(heap0, root)
     \/ op = "insertNodeBetweenWideAndNarrow" /\ Len(heap) > Len(heap0) + 3

(***************************************************************************)
(* SpecWords: processNewLines applied to trees of narrow words with        *)
(* whitespace between them, in Text nodes of their own and at the edges of *)
(* nested phrasing elements, some of which have no text.                   *)
(***************************************************************************)
ItemsWords ==
  {TextOf(<<LatinA>>), TextOf(<<LatinA, SP, LF>>), TextOf(<<LF, LatinA>>),
   TextOf(<<SP>>), TextOf(<<LF>>),
   ElementOf("br", <<>>),
   ElementOf("b", <<TextOf(<<LatinA>>)>>),
   ElementOf("b", <<TextOf(<<LF>>)>>),
   ElementOf("b", <<ElementOf("i", <<TextOf(<<LatinA, SP, LF>>)>>)>>),
   ElementOf("b", <<ElementOf("i", <<>>)>>),
   ElementOf("b", <<TextOf(<<SP, LatinA>>), ElementOf("br", <<>>)>>),
   ElementOf("li", <<TextOf(<<LatinA>>)>>)}

InitWords == InitTree(ItemsWords)

NextWords == ProcessNewLines

SpecWords == InitWords /\ [][NextWords]_vars

(***************************************************************************)
(* C26: words stay apart                                                   *)
(***************************************************************************)
\* stands for the start and the end of an element that is not phrasing; a
\* character r is <<r>>
C26_Break == <<>>

\* the characters below n in document order, with C26_Break at both ends of
\* each element that is not phrasing
RECURSIVE C26_Flat(_, _)
RECURSIVE C26_FlatFrom(_, _)
C26_FlatFrom(h, n) ==
  IF n = NIL THEN <<>> ELSE C26_Flat(h, n) \o C26_FlatFrom(h, h[n].NextSibling)

C26_Flat(h, n) ==
  IF h[n].Type = TextNode THEN [i \in 1..Len(h[n].Data) |-> <<h[n].Data[i]>>]
  ELSE IF h[n].Type = ElementNode /\ ~isPhrasingElementName(h[n].Tag)
  THEN <<C26_Break>> \o C26_FlatFrom(h, h[n].FirstChild) \o <<C26_Break>>
  ELSE C26_FlatFrom(h, h[n].FirstChild)

C26_IsSpace(x) == x # C26_Break /\ isASCIIWhitespace(x[1])

\* the positions in f of what is no whitespace, in order
C26_Marks(f) ==
  SelectSeq([i \in 1..Len(f) |-> i], LAMBDA i : ~C26_IsSpace(f[i]))

\* the k-th and the next mark of f are narrow characters with whitespace
\* and nothing else between them
C26_WordsApart(f, k) ==
  LET m == C26_Marks(f)
  IN /\ f[m[k]] # C26_Break /\ ~WideRune(f[m[k]][1])
     /\ f[m[k + 1]] # C26_Break /\ ~WideRune(f[m[k + 1]][1])
     /\ m[k + 1] > m[k] + 1

\* C26: two narrow characters that follow each other in the text of the
\* input, with ASCII whitespace and no start or end of a non-phrasing
\* element between them, have at least one space between them in the output
\* of processNewLines.
C26_WordsNotJoined ==
  op = "processNewLines" =>
    LET f0 == C26_Flat(heap0, root)
        f1 == C26_Flat(heap, root)
        m0 == C26_Marks(f0)
        m1 == C26_Marks(f1)
    IN /\ Len(m1) = Len(m0)
       /\ \A k \in 1..(Len(m0) - 1) :
            C26_WordsApart(f0, k) => m1[k + 1] > m1[k] + 1

\* the same for the trees in which every phrasing element between the two
\* characters holds text
C26_EveryElementHasText(h) ==
  \A n \in Linked(h, root) :
    (h[n].Type = ElementNode /\ isPhrasingElementName(h[n].Tag)) =>
      \E m \in Linked(h, n) : h[m].Type = TextNode

C26_NotJoinedAcrossText ==
  C26_EveryElementHasText(heap0) => C26_WordsNotJoined

\* the pass has joined two words
C26_Joined ==
  /\ op = "processNewLines"
  /\ \E k \in 1..(Len(C26_Marks(C26_Flat(heap0, root))) - 1) :
       /\ C26_WordsApart(C26_Flat(heap0, root), k)
       /\ C26_Marks(C26_Flat(heap, root))[k + 1] = C26_Marks(C26_Flat(heap, root))[k] + 1

(***************************************************************************)
(* SpecMeta: processNewLines and insertNodeBetweenWideAndNarrow applied to *)
(* trees with metadata elements that hold text, next to text and phrasing  *)
(* elements.                                                               *)
(***************************************************************************)
ItemsMeta ==
  {TextOf(<<LatinA>>), TextOf(<<LatinA, SP, LF>>), TextOf(<<HiraganaA>>),
   ElementOf("b", <<TextOf(<<HiraganaA>>)>>),
   ElementOf("script", <<TextOf(<<LatinA>>)>>),
   ElementOf("style", <<TextOf(<<LatinA>>)>>),
   ElementOf("title", <<TextOf(<<HiraganaA>>)>>),
   ElementOf("noscript", <<TextOf(<<HiraganaA>>)>>),
   ElementOf("template", <<TextOf(<<LatinA>>)>>),
   ElementOf("b", <<ElementOf("script", <<TextOf(<<HiraganaA>>)>>)>>)}

InitMeta == InitTree(ItemsMeta)

NextMeta == ProcessNewLines \/ InsertNodeBetweenWideAndNarrow

SpecMeta == InitMeta /\ [][NextMeta]_vars

(***************************************************************************)
(* C27: the text inside metadata elements                                  *)
(***************************************************************************)
C27_Metadata(h, n) ==
  h[n].Type = ElementNode
    /\ h[n].Tag \in {"script", "style", "noscript", "template", "title"}

\* the Text nodes of h inside metadata elements
C27_Inside(h) ==
  {m \in Linked(h, root) :
     h[m].Type = TextNode /\ \E e \in Linked(h, root) : C27_Metadata(h, e) /\ m \in Linked(h, e)}

\* h with the payload d in every Text node inside a metadata element
C27_With(h, d) ==
  [m \in 1..Len(h) |-> IF m \in C27_Inside(h) THEN [h[m] EXCEPT !.Data = d] ELSE h[m]]

\* the tree below n without what is inside its metadata elements
RECURSIVE C27_OutsideOf(_, _)
C27_OutsideOf(h, n) ==
  [type |-> h[n].Type, tag |-> h[n].Tag, data |-> h[n].Data,
   kids |-> IF C27_Metadata(h, n) THEN <<>>
            ELSE [i \in 1..Len(Children(h, n)) |-> C27_OutsideOf(h, Children(h, n)[i])]]

C27_Payloads == {<<LatinA>>, <<HiraganaA>>, <<SP, LF>>}

\* the pass of the last step applied to h
C27_Pass(h) ==
  IF op = "processNewLines" THEN processNewLines(h, root)
  ELSE insertNodeBetweenWideAndNarrow(WithTemplate(h, tmpl), root, Len(h) + 1)

\* C27: the tree that processNewLines or insertNodeBetweenWideAndNarrow makes
\* is, outside the metadata elements, the same for every input that differs
\* from the given one only in the text inside script, style, noscript,
\* template and title elements.
C27_MetadataTextHidden ==
  op \in {"processNewLines", "insertNodeBetweenWideAndNarrow"} =>
    \A d \in C27_Payloads :
      C27_OutsideOf(C27_Pass(C27_With(heap0, d)), root) = C27_OutsideOf(heap, root)

\* the same for style and title, which are no phrasing elements
C27_StyleTitleTextHidden ==
  (\A n \in Linked(heap0, root) :
     C27_Metadata(heap0, n) => heap0[n].Tag \in {"style", "title"})
  => C27_MetadataTextHidden

\* the pass gives a different tree outside a script element for another
\* text inside it
C27_Leak ==
  /\ op \in {"processNewLines", "insertNodeBetweenWideAndNarrow"}
  /\ \A n \in Linked(heap0, root) : C27_Metadata(heap0, n) => heap0[n].Tag = "script"
  /\ \E d \in C27_Payloads :
       C27_OutsideOf(C27_Pass(C27_With(heap0, d)), root) # C27_OutsideOf(heap, root)

(***************************************************************************)
(* SpecRun: Run.  copyNonHTMLFiles walks the input directory and starts a  *)
(* task for each file that is no document; when it has returned without    *)
(* error, generateHTMLs runs as in SpecGen.  The copy tasks are the tasks   *)
(* NumDocs + 1 .. NumDocs + NumCopies.                                      *)
(***************************************************************************)
NumCopies == 2

Copies == (NumDocs + 1)..(NumDocs + NumCopies)

\* the files: one that can be read and one that cannot be opened
CopyInputs ==
  {[path |-> "style.css", readable |-> TRUE, kids |-> <<>>],
   [path |-> "image.png", readable |-> FALSE, kids |-> <<>>]}

InitRun ==
  /\ tasks \in [Docs \cup Copies ->
                  {[in |-> i, pc |-> "idle", heap |-> <<>>, ops |-> <<>>,
                    out |-> NoFile, err |-> ""] : i \in DocInputs \cup CopyInputs}]
  /\ \A d \in Docs : tasks[d].in \in DocInputs
  /\ \A c \in Copies : tasks[c].in \in CopyInputs
  /\ run = [pc |-> "copyWalk", next |-> 1, groupErr |-> "", err |-> ""]
  /\ heap = <<>>
  /\ heap0 = <<>>
  /\ root = RootId
  /\ ops = <<>>
  /\ tmpl = "none"
  /\ args = <<>>
  /\ ret = "none"

\* the process is alive, in copyNonHTMLFiles or after it
CopyAlive == Alive \/ run.pc \in {"copyWalk", "copyWait"}

\* the walk of copyNonHTMLFiles visits the next file and starts its task
CopyWalkSpawn ==
  /\ run.pc = "copyWalk"
  /\ run.next <= NumCopies
  /\ tasks' = [tasks EXCEPT ![NumDocs + run.next].pc = "create"]
  /\ run' = [run EXCEPT !.next = run.next + 1]
  /\ UNCHANGED <<heap, root, heap0, ops, tmpl, args, ret>>

\* the walk gets an error: copyNonHTMLFiles returns it, and so does Run
CopyWalkError ==
  /\ run.pc = "copyWalk"
  /\ run.next <= NumCopies
  /\ run' = [run EXCEPT !.pc = "returned", !.err = "walk"]
  /\ UNCHANGED <<heap, root, heap0, ops, tmpl, args, ret, tasks>>

\* the walk is over: copyNonHTMLFiles calls wg.Wait
CopyWalkDone ==
  /\ run.pc = "copyWalk"
  /\ run.next = NumCopies + 1
  /\ run' = [run EXCEPT !.pc = "copyWait"]
  /\ UNCHANGED <<heap, root, heap0, ops, tmpl, args, ret, tasks>>

\* a wait that returns while tasks are running
CopyWaitEarly ==
  /\ run.pc = "copyWait"
  /\ run' = IF run.groupErr # ""
            THEN [run EXCEPT !.pc = "returned", !.err = run.groupErr]
            ELSE [run EXCEPT !.pc = "walk", !.next = 1]
  /\ UNCHANGED <<heap, root, heap0, ops, tmpl, args, ret, tasks>>

\* wg.Wait returns when every copy task has ended.  With an error Run
\* returns it; without, Run calls generateHTMLs, which starts its walk
CopyWait ==
  /\ run.pc = "copyWait"
  /\ \A c \in Copies : tasks[c].pc \in {"done", "failed"}
  /\ run' = IF run.groupErr # ""
            THEN [run EXCEPT !.pc = "returned", !.err = run.groupErr]
            ELSE [run EXCEPT !.pc = "walk", !.next = 1]
  /\ UNCHANGED <<heap, root, heap0, ops, tmpl, args, ret, tasks>>

\* os.MkdirAll and os.Create: the output file exists and is empty
CopyCreate(c) ==
  /\ CopyAlive
  /\ tasks[c].pc = "create"
  /\ tasks' = [tasks EXCEPT ![c].pc = "open",
                            ![c].out = [state |-> "created", tree |-> <<>>]]
  /\ UNCHANGED <<heap, root, heap0, ops, tmpl, args, ret, run>>

\* os.Open of the input file
CopyOpen(c) ==
  /\ CopyAlive
  /\ tasks[c].pc = "open"
  /\ IF tasks[c].in.readable
     THEN /\ tasks' = [tasks EXCEPT ![c].pc = "write"]
          /\ UNCHANGED run
     ELSE /\ tasks' = [tasks EXCEPT ![c].pc = "failed", ![c].err = "open"]
          /\ run' = [run EXCEPT !.groupErr = IF run.groupErr = "" THEN "open"
                                             ELSE run.groupErr]
  /\ UNCHANGED <<heap, root, heap0, ops, tmpl, args, ret>>

\* minifyCSS, minifyJS or io.Copy, and Flush: the output file is complete
CopyWrite(c) ==
  /\ CopyAlive
  /\ tasks[c].pc = "write"
  /\ tasks' = [tasks EXCEPT ![c].pc = "done",
                            ![c].out = [state |-> "written", tree |-> <<>>]]
  /\ UNCHANGED <<heap, root, heap0, ops, tmpl, args, ret, run>>

NextRun ==
  \/ CopyWalkSpawn
  \/ CopyWalkError
  \/ CopyWalkDone
  \/ CopyWait
  \/ \E c \in Copies :
       \/ CopyCreate(c)
       \/ CopyOpen(c)
       \/ CopyWrite(c)
  \/ NextGen

SpecRun == InitRun /\ [][NextRun]_vars

(***************************************************************************)
(* C28: the tasks when Run returns                                         *)
(***************************************************************************)
\* C28: when Run has returned, no task that copyNonHTMLFiles or
\* generateHTMLs has started is still running: each has ended, with or
\* without error.
C28_NoTaskOutlivesRun ==
  run.pc \in {"returned", "exited"} =>
    \A t \in Docs \cup Copies : tasks[t].pc \in {"idle", "done", "failed", "panicked"}

\* the same for the returns that are no walk error
C28_WaitedUnlessWalkError ==
  run.err # "walk" => C28_NoTaskOutlivesRun

\* Run has returned the error of the walk and the process has ended while a
\* task had created its output file and not written it
C28_Leaked ==
  /\ run.pc = "exited"
  /\ run.err = "walk"
  /\ \E t \in Docs \cup Copies :
       tasks[t].pc \notin {"idle", "done", "failed", "panicked"}
         /\ tasks[t].out.state = "created"

(***************************************************************************)
(* C29: the copy tasks and the documents                                   *)
(***************************************************************************)
\* C29: when a generateHTML task has been started, every copy task has
\* ended without error and its output file is written completely, so the
\* style.css and script.js a document reads are complete; and when a copy
\* task has failed no generateHTML task is ever started and no document is
\* written.
C29_CopiesBeforeDocuments ==
  /\ (\E d \in Docs : tasks[d].pc # "idle") =>
       \A c \in Copies : tasks[c].pc = "done" /\ tasks[c].out.state = "written"
  /\ (\E c \in Copies : tasks[c].pc = "failed" \/ ~tasks[c].in.readable) =>
       \A d \in Docs : tasks[d].pc = "idle" /\ tasks[d].out = NoFile

\* a document is rendered after the copy tasks, which ran concurrently,
\* have all written their files
C29_Witness ==
  /\ \E d \in Docs : tasks[d].out.state = "rendered"
  /\ \A c \in Copies : tasks[c].out.state = "written"

\* Run has returned the error of a copy task and no document was started
C29_WitnessFailed ==
  /\ run.pc = "returned"
  /\ run.err = "open"
  /\ \E c \in Copies : tasks[c].pc = "failed"
  /\ \E c \in Copies : tasks[c].pc = "done"
  /\ \A d \in Docs : tasks[d].pc = "idle"

(***************************************************************************)
(* SpecHash: fileHash called concurrently.  tasks[c] is caller c: the step *)
(* it is at, the path it asked for, the sum it has computed and the result *)
(* of its last call.  run holds what the callers share: the holder of      *)
(* fileHashCacheM, fileHashCache, the files, the number of calls made, and *)
(* the history the properties speak of.                                    *)
(***************************************************************************)
NumCallers == 2
MaxCalls == 3

Callers == 1..NumCallers

HashPaths == {"style.css", "script.js"}

\* no entry in fileHashCache, and no holder of the mutex
NoHash == "none"
NoCaller == 0

\* base64.URLEncoding.EncodeToString(sha256(content))[:10], for the two
\* contents a file can have
hashOf(content) == IF content = "v1" THEN "h1" ELSE "h2"

InitHash ==
  /\ tasks = [c \in Callers |-> [pc |-> "idle", path |-> "", h |-> NoHash, res |-> [state |-> "none", hash |-> NoHash]]]
  /\ \E r \in [HashPaths -> BOOLEAN] :
       run = [pc |-> "fileHash", lock |-> NoCaller, calls |-> 0,
              cache |-> [p \in HashPaths |-> NoHash],
              files |-> [p \in HashPaths |-> [readable |-> r[p], content |-> "v1"]],
              first |-> [p \in HashPaths |-> NoHash],
              failed |-> [p \in HashPaths |-> FALSE],
              reread |-> FALSE]
  /\ heap = <<>>
  /\ heap0 = <<>>
  /\ root = NIL
  /\ ops = <<>>
  /\ tmpl = "none"
  /\ args = <<>>
  /\ ret = "none"

\* caller c calls fileHash(p)
HashCall(c, p) ==
  /\ tasks[c].pc = "idle"
  /\ run.calls < MaxCalls
  /\ tasks' = [tasks EXCEPT ![c] = [pc |-> "lock", path |-> p, h |-> NoHash, res |-> [state |-> "none", hash |-> NoHash]]]
  /\ run' = [run EXCEPT !.calls = run.calls + 1]
  /\ UNCHANGED <<heap, root, heap0, ops, tmpl, args, ret>>

\* a Lock that does not wait
HashLockAnyway(c) ==
  /\ tasks[c].pc = "lock"
  /\ tasks' = [tasks EXCEPT ![c].pc = "lookup"]
  /\ run' = [run EXCEPT !.lock = c]
  /\ UNCHANGED <<heap, root, heap0, ops, tmpl, args, ret>>

\* fileHashCacheM.Lock()
HashLock(c) ==
  /\ tasks[c].pc = "lock"
  /\ run.lock = NoCaller
  /\ tasks' = [tasks EXCEPT ![c].pc = "lookup"]
  /\ run' = [run EXCEPT !.lock = c]
  /\ UNCHANGED <<heap, root, heap0, ops, tmpl, args, ret>>

\* the lookup in fileHashCache: with an entry the call returns it, and the
\* deferred Unlock runs
HashLookup(c) ==
  /\ tasks[c].pc = "lookup"
  /\ IF run.cache[tasks[c].path] # NoHash
     THEN /\ tasks' = [tasks EXCEPT ![c].pc = "idle",
                                    ![c].res = [state |-> "ok", hash |-> run.cache[tasks[c].path]]]
          /\ run' = [run EXCEPT !.lock = NoCaller]
     ELSE /\ tasks' = [tasks EXCEPT ![c].pc = "open"]
          /\ UNCHANGED run
  /\ UNCHANGED <<heap, root, heap0, ops, tmpl, args, ret>>

\* os.Open: with an error the call returns it, and the deferred Unlock runs
HashOpen(c) ==
  /\ tasks[c].pc = "open"
  /\ LET p == tasks[c].path
     IN IF run.files[p].readable
        THEN /\ tasks' = [tasks EXCEPT ![c].pc = "read"]
             /\ run' = [run EXCEPT !.reread = run.reread \/ run.first[p] # NoHash]
        ELSE /\ tasks' = [tasks EXCEPT ![c].pc = "idle", ![c].res = [state |-> "error", hash |-> NoHash]]
             /\ run' = [run EXCEPT !.lock = NoCaller, !.failed[p] = TRUE]
  /\ UNCHANGED <<heap, root, heap0, ops, tmpl, args, ret>>

\* io.Copy into the sha256 and the encoding of the sum, or an error of the
\* read, with which the call returns
HashRead(c) ==
  /\ tasks[c].pc = "read"
  /\ LET p == tasks[c].path
     IN \/ /\ tasks' = [tasks EXCEPT ![c].pc = "store",
                                     ![c].h = hashOf(run.files[p].content)]
           /\ UNCHANGED run
        \/ /\ tasks' = [tasks EXCEPT ![c].pc = "idle", ![c].res = [state |-> "error", hash |-> NoHash]]
           /\ run' = [run EXCEPT !.lock = NoCaller, !.failed[p] = TRUE]
  /\ UNCHANGED <<heap, root, heap0, ops, tmpl, args, ret>>

\* fileHashCache[path] = hash, and the return
HashStore(c) ==
  /\ tasks[c].pc = "store"
  /\ LET p == tasks[c].path
     IN /\ tasks' = [tasks EXCEPT ![c].pc = "idle",
                                  ![c].res = [state |-> "ok", hash |-> tasks[c].h]]
        /\ run' = [run EXCEPT !.lock = NoCaller,
                              !.cache[p] = tasks[c].h,
                              !.first[p] = IF run.first[p] = NoHash THEN tasks[c].h
                                           ELSE run.first[p],
                              !.failed[p] = FALSE]
  /\ UNCHANGED <<heap, root, heap0, ops, tmpl, args, ret>>

\* the file gets another content, or becomes readable
HashFileWritten(p) ==
  /\ run.files[p] # [readable |-> TRUE, content |-> "v2"]
  /\ run' = [run EXCEPT !.files[p] = IF run.files[p].readable
                                     THEN [readable |-> TRUE, content |-> "v2"]
                                     ELSE [readable |-> TRUE, content |-> "v1"]]
  /\ UNCHANGED <<heap, root, heap0, ops, tmpl, args, ret, tasks>>

NextHash ==
  \/ \E c \in Callers :
       \/ \E p \in HashPaths : HashCall(c, p)
       \/ HashLock(c)
       \/ HashLookup(c)
       \/ HashOpen(c)
       \/ HashRead(c)
       \/ HashStore(c)
  \/ \E p \in HashPaths : HashFileWritten(p)

SpecHash == InitHash /\ [][NextHash]_vars

(***************************************************************************)
(* C30: fileHash under concurrent calls                                    *)
(***************************************************************************)
\* the callers between Lock and the deferred Unlock
C30_Inside == {c \in Callers : tasks[c].pc \in {"lookup", "open", "read", "store"}}

\* C30: at most one call is between Lock and Unlock at a time; after a call
\* for a path has succeeded the file of the path is not opened again, and
\* every call for the path that has returned a hash returned the hash of
\* the first; the cache holds an entry for a path only after a call for it
\* has succeeded, and none after a failed call that no success has
\* followed, so the next call for the path opens the file again.
C30_CachedOnce ==
  /\ Cardinality(C30_Inside) <= 1
  /\ \A c \in C30_Inside : run.lock = c
  /\ ~run.reread
  /\ \A c \in Callers :
       tasks[c].res.state = "ok" =>
         tasks[c].res.hash = run.first[tasks[c].path]
  /\ \A p \in HashPaths :
       /\ run.cache[p] = run.first[p]
       /\ run.failed[p] => run.cache[p] = NoHash
  /\ \A c \in Callers : tasks[c].pc \in {"open", "read", "store"} =>
                          run.cache[tasks[c].path] = NoHash

\* two calls for a path have returned the same hash, the second from the
\* cache, though the content of the file has changed
C30_Witness ==
  \E c, d \in Callers, p \in HashPaths :
    /\ c # d
    /\ tasks[c].pc = "idle" /\ tasks[c].path = p /\ tasks[c].res.state = "ok"
    /\ tasks[d].pc = "idle" /\ tasks[d].path = p /\ tasks[d].res.state = "ok"
    /\ tasks[c].res.hash = hashOf("v1")
    /\ tasks[d].res.hash = hashOf("v1")
    /\ run.files[p].content = "v2"

\* a call reads the file again after a call for the same path has failed
C30_WitnessRetry ==
  \E c \in Callers :
    tasks[c].pc = "read" /\ run.failed[tasks[c].path]

====
